---- MODULE Spec2Model ----
(***************************************************************************)
(* Echoes of Elaria - the turn-based combat engine (js/game/combat.js)     *)
(* with the entities it fights over: characters from                       *)
(* Entities.createCharacter (js/game/persistence.js) and enemies / bosses  *)
(* from MapGenerator.generateEnemy / generateBoss; and the run maps of     *)
(* MapGenerator.generateRun (specification SpecMap).                       *)
(*                                                                         *)
(* Numbers.  JavaScript numbers that the engine computes are integers      *)
(* after Math.floor; fractions (scaling factors, chances, thresholds) are  *)
(* kept as integers over a fixed denominator named in the field (sf10 =    *)
(* scalingFactor * 10, acc100 = accuracy * 100, ...).  A Math.random()     *)
(* draw r is kept as the integer 100 * r.  NaN stands for the JavaScript   *)
(* NaN and for a missing (undefined) numeric field: every use the engine   *)
(* makes of such a field (arithmetic, <, >, <=, ||) treats both alike.     *)
(***************************************************************************)
EXTENDS Integers, Sequences, FiniteSets, TLC

(* ---------------------------- bounds ----------------------------------- *)
\* the number of rounds played: no call is made and no enemy turn is run
\* once the turn counter has passed it
MaxTurn == 2
\* how many asynchronous continuations of one kind (useSkill calls awaiting
\* executeSkill, enemy-turn timers) may be pending at once
MaxPending == 1

\* Math.random() draws, as 100 * r
Draws == {0, 69, 70, 99}
\* the draws explored for the damage variance
VarDraws == {0, 99}
\* the skill indices the caller passes to useSkill (8 names no skill)
SkillChoices == {0, 1, 3, 8}
\* the exceptions raised inside the try block of executeEnemyTurn by a callee
\* of the engine: none, one raised while chooseEnemyAction runs, one raised
\* at the end of executeEnemyAction
Faults == {"none", "choose", "execute"}

\* the number of generateRun calls made on one MapGenerator
MaxRuns == 2
\* Math.random() draws of the map generator, as 100 * r: for the region
\* count, the choice of regions, the region length and the node type
CountDraws == {0, 50, 99}
RegionDraws == {0, 99}
LengthDraws == {0, 99}
NodeDraws == {0, 50, 99}

\* Date.now() at the saves explored
SaveTimes == {1, 2}
\* the experience amounts granted, and the number of grants per character
ExpGrants == {0, 99, 100, 120, 220, 400}
MaxGrants == 2
\* the enemies chooseEnemyAction is called for, their hp in percent of the
\* maximum, and the draws of its Math.random()
AiTypes == {"wolf", "treant", "ghost", "frost_giant", "lich", "forest_guardian"}
HpLevels == {10, 29, 30, 40, 49, 50, 100}
AiDraws == {0, 29, 30, 39, 40, 59, 60, 79, 80, 99}

(* ---------------------------- JavaScript numbers ----------------------- *)
NaN == -1000000

JsAdd(a, b) == IF a = NaN \/ b = NaN THEN NaN ELSE a + b
JsSub(a, b) == IF a = NaN \/ b = NaN THEN NaN ELSE a - b
\* Math.max(a, b), Math.min(a, b): NaN if either argument is NaN
JsMax(a, b) == IF a = NaN \/ b = NaN THEN NaN ELSE IF a >= b THEN a ELSE b
JsMin(a, b) == IF a = NaN \/ b = NaN THEN NaN ELSE IF a <= b THEN a ELSE b
\* comparisons with NaN are false
JsLt(a, b) == a # NaN /\ b # NaN /\ a < b
JsLe(a, b) == a # NaN /\ b # NaN /\ a <= b
JsGt(a, b) == a # NaN /\ b # NaN /\ a > b
\* a || b on numbers: 0, NaN and undefined are falsy
JsOr(a, b) == IF a = NaN \/ a = 0 THEN b ELSE a
\* Math.floor(n / d) for n >= 0, d > 0
Floor(n, d) == n \div d

(* ---------------------------- content tables --------------------------- *)
Eff(t, d, c) == [type |-> t, duration |-> d, chance100 |-> c]

Skill(n, mana, cd, dmg, heal, ty, sf, crit, acc, effs) ==
    [name |-> n, manaCost |-> mana, cooldown |-> cd, damage |-> dmg,
     healing |-> heal, type |-> ty, sf10 |-> sf, crit1000 |-> crit,
     acc100 |-> acc, statusEffects |-> effs]

\* Entities.skillTemplates; name is skill.name.toLowerCase(); a missing
\* scalingFactor is NaN, a missing criticalChance / accuracy / healing is 0
skillTemplates ==
    [slash |-> Skill("slash", 0, 0, 25, 0, "physical", 12, 150, 95, <<>>),
     shield_bash |-> Skill("shield bash", 10, 2, 15, 0, "physical", 8, 0, 90,
                           <<Eff("stunned", 1, 30)>>),
     defensive_stance |-> Skill("defensive stance", 15, 4, 0, 0, "buff", NaN, 0, 0,
                                <<Eff("defense_boost", 3, 100)>>),
     charge |-> Skill("charge", 20, 3, 40, 0, "physical", 15, 250, 85, <<>>),
     whirlwind |-> Skill("whirlwind", 25, 4, 30, 0, "physical", 10, 0, 90, <<>>),
     taunt |-> Skill("taunt", 5, 2, 0, 0, "debuff", NaN, 0, 0,
                     <<Eff("taunted", 2, 80)>>),
     berserker_rage |-> Skill("berserker rage", 30, 6, 0, 0, "buff", NaN, 0, 0,
                              <<Eff("strength_boost", 4, 100),
                                Eff("defense_weakness", 4, 100)>>),
     guardian_strike |-> Skill("guardian strike", 35, 5, 35, 20, "physical", 13, 200, 0,
                               <<>>),
     magic_missile |-> Skill("magic missile", 8, 0, 20, 0, "magic", 15, 0, 98, <<>>),
     fireball |-> Skill("fireball", 20, 2, 35, 0, "magic", 18, 0, 0,
                        <<Eff("burning", 2, 40)>>),
     ice_shard |-> Skill("ice shard", 15, 1, 25, 0, "magic", 14, 0, 0,
                         <<Eff("slow", 2, 50)>>),
     lightning_bolt |-> Skill("lightning bolt", 25, 3, 40, 0, "magic", 16, 300, 100, <<>>),
     meteor |-> Skill("meteor", 45, 6, 60, 0, "magic", 20, 0, 80, <<>>),
     teleport |-> Skill("teleport", 20, 4, 0, 0, "utility", NaN, 0, 0,
                        <<Eff("evasion_boost", 2, 100)>>),
     mana_shield |-> Skill("mana shield", 30, 5, 0, 0, "buff", NaN, 0, 0,
                           <<Eff("mana_shield", 4, 100)>>),
     elemental_mastery |-> Skill("elemental mastery", 40, 7, 0, 0, "buff", NaN, 0, 0,
                                 <<Eff("elemental_boost", 5, 100)>>),
     backstab |-> Skill("backstab", 10, 1, 20, 0, "physical", 13, 500, 90, <<>>),
     poison_blade |-> Skill("poison blade", 15, 2, 18, 0, "physical", 10, 0, 0,
                            <<Eff("poison", 4, 80)>>),
     stealth |-> Skill("stealth", 20, 4, 0, 0, "buff", NaN, 0, 0,
                       <<Eff("stealth", 3, 100)>>),
     throwing_knife |-> Skill("throwing knife", 12, 1, 22, 0, "ranged", 11, 0, 95,
                              <<Eff("bleeding", 3, 60)>>),
     shadow_step |-> Skill("shadow step", 25, 3, 30, 0, "physical", 14, 300, 100, <<>>),
     evasion |-> Skill("evasion", 18, 3, 0, 0, "buff", NaN, 0, 0,
                       <<Eff("speed_boost", 3, 100)>>),
     assassinate |-> Skill("assassinate", 40, 6, 80, 0, "physical", 20, 700, 80, <<>>),
     smoke_bomb |-> Skill("smoke bomb", 30, 5, 0, 0, "debuff", NaN, 0, 0,
                          <<Eff("blinded", 2, 90), Eff("stealth", 2, 100)>>),
     heal |-> Skill("heal", 15, 0, 0, 35, "magic", 15, 0, 0, <<>>),
     greater_heal |-> Skill("greater heal", 30, 2, 0, 70, "magic", 20, 0, 0, <<>>),
     blessing |-> Skill("blessing", 25, 4, 0, 0, "buff", NaN, 0, 0,
                        <<Eff("blessed", 4, 100)>>),
     purify |-> Skill("purify", 20, 3, 0, 0, "utility", NaN, 0, 0,
                      <<Eff("purified", 1, 100)>>),
     divine_shield |-> Skill("divine shield", 40, 6, 0, 0, "buff", NaN, 0, 0,
                             <<Eff("divine_shield", 2, 100)>>),
     resurrection |-> Skill("resurrection", 50, 10, 0, 0, "utility", NaN, 0, 0,
                            <<Eff("resurrection", 10, 100)>>),
     holy_light |-> Skill("holy light", 35, 4, 50, 25, "magic", 18, 0, 0, <<>>),
     sanctuary |-> Skill("sanctuary", 45, 7, 0, 15, "magic", NaN, 0, 0,
                         <<Eff("regeneration", 5, 100)>>)]

\* Entities.classTemplates
classTemplates ==
    [warrior |-> [strength |-> 15, agility |-> 8, intelligence |-> 5, vitality |-> 12,
                  baseHealth |-> 100, baseMana |-> 30,
                  skills |-> <<"slash", "shield_bash", "defensive_stance", "charge",
                               "whirlwind", "taunt", "berserker_rage",
                               "guardian_strike">>],
     mage |-> [strength |-> 5, agility |-> 7, intelligence |-> 15, vitality |-> 8,
               baseHealth |-> 60, baseMana |-> 80,
               skills |-> <<"magic_missile", "fireball", "ice_shard", "lightning_bolt",
                            "meteor", "teleport", "mana_shield", "elemental_mastery">>],
     rogue |-> [strength |-> 10, agility |-> 15, intelligence |-> 8, vitality |-> 7,
                baseHealth |-> 70, baseMana |-> 50,
                skills |-> <<"backstab", "poison_blade", "stealth", "throwing_knife",
                             "shadow_step", "evasion", "assassinate", "smoke_bomb">>],
     healer |-> [strength |-> 6, agility |-> 9, intelligence |-> 12, vitality |-> 13,
                 baseHealth |-> 80, baseMana |-> 70,
                 skills |-> <<"heal", "greater_heal", "blessing", "purify",
                              "divine_shield", "resurrection", "holy_light",
                              "sanctuary">>]]

\* Entities.classTemplates: growthRates * 10 of vitality and intelligence,
\* healthPerLevel and manaPerLevel
levelTemplates ==
    [warrior |-> [vitality10 |-> 20, intelligence10 |-> 8,
                  healthPerLevel |-> 15, manaPerLevel |-> 3],
     mage |-> [vitality10 |-> 12, intelligence10 |-> 28,
               healthPerLevel |-> 8, manaPerLevel |-> 12],
     rogue |-> [vitality10 |-> 10, intelligence10 |-> 13,
                healthPerLevel |-> 10, manaPerLevel |-> 7],
     healer |-> [vitality10 |-> 23, intelligence10 |-> 22,
                 healthPerLevel |-> 12, manaPerLevel |-> 10]]

\* Entities.factionBonuses: defenseBonus * 100 (100 when the faction has none)
FactionDefense100(f) == IF f = "order" THEN 115 ELSE 100

\* MapGenerator.generateEnemy's enemyTemplates
enemyTemplates ==
    [goblin |-> [hp |-> 35, attack |-> 8, defense |-> 2, speed |-> 6],
     wolf |-> [hp |-> 45, attack |-> 12, defense |-> 4, speed |-> 8],
     spider |-> [hp |-> 30, attack |-> 10, defense |-> 1, speed |-> 7],
     treant |-> [hp |-> 70, attack |-> 15, defense |-> 8, speed |-> 3],
     scorpion |-> [hp |-> 40, attack |-> 14, defense |-> 6, speed |-> 5],
     bandit |-> [hp |-> 50, attack |-> 11, defense |-> 3, speed |-> 6],
     sand_wraith |-> [hp |-> 35, attack |-> 16, defense |-> 2, speed |-> 9],
     mummy |-> [hp |-> 60, attack |-> 13, defense |-> 7, speed |-> 4],
     ice_wolf |-> [hp |-> 55, attack |-> 14, defense |-> 5, speed |-> 7],
     frost_giant |-> [hp |-> 90, attack |-> 20, defense |-> 12, speed |-> 2],
     ice_elemental |-> [hp |-> 40, attack |-> 18, defense |-> 3, speed |-> 8],
     yeti |-> [hp |-> 75, attack |-> 16, defense |-> 10, speed |-> 5],
     skeleton |-> [hp |-> 45, attack |-> 12, defense |-> 8, speed |-> 4],
     ghost |-> [hp |-> 30, attack |-> 20, defense |-> 1, speed |-> 10],
     gargoyle |-> [hp |-> 80, attack |-> 18, defense |-> 15, speed |-> 3],
     lich |-> [hp |-> 65, attack |-> 22, defense |-> 6, speed |-> 6]]

\* MapGenerator.generateBoss's bossTemplates
bossTemplates ==
    [forest_guardian |-> [hp |-> 150, attack |-> 25, defense |-> 15, speed |-> 5],
     elder_treant |-> [hp |-> 200, attack |-> 30, defense |-> 20, speed |-> 3],
     desert_king |-> [hp |-> 180, attack |-> 28, defense |-> 12, speed |-> 6],
     sand_dragon |-> [hp |-> 250, attack |-> 35, defense |-> 18, speed |-> 7],
     ice_queen |-> [hp |-> 220, attack |-> 32, defense |-> 16, speed |-> 4],
     frost_dragon |-> [hp |-> 300, attack |-> 40, defense |-> 22, speed |-> 6],
     ancient_king |-> [hp |-> 280, attack |-> 38, defense |-> 25, speed |-> 5],
     shadow_lord |-> [hp |-> 200, attack |-> 45, defense |-> 10, speed |-> 9]]

\* Combat.bossPhases: per phase the hpThreshold * 100 and the abilities
Phase(t, a) == [hpThreshold100 |-> t, abilities |-> a]

bossPhases ==
    [forest_guardian |-> <<Phase(75, <<"nature_heal">>), Phase(50, <<"root_entangle">>),
                           Phase(25, <<"forest_fury">>)>>,
     sand_dragon |-> <<Phase(66, <<"sand_breath">>), Phase(33, <<"dune_dive">>),
                       Phase(10, <<"desert_rage">>)>>,
     ice_queen |-> <<Phase(80, <<"frost_armor">>), Phase(60, <<"ice_storm">>),
                     Phase(40, <<"frozen_heart">>), Phase(20, <<"absolute_zero">>)>>]

\* Combat.statusEffects: damagePerTurn * 100 and healPerTurn * 100 of a
\* catalogued effect type (0 when the template has none or the type is
\* not in the catalogue)
DamagePerTurn100(t) ==
    CASE t = "poison" -> 8 [] t = "bleeding" -> 5 [] t = "burning" -> 12 [] OTHER -> 0

HealPerTurn100(t) == IF t = "regeneration" THEN 10 ELSE 0

(* ---------------------------- entities --------------------------------- *)
\* The arguments of one startCombat(player, enemy, options) call:
\*   cls, faction   the character is createCharacter(cls, faction)
\*   locked         indices of the character's skills with unlocked = false
\*   boss, etype    the enemy is generateBoss(etype, d) or generateEnemy(.., d)
\*   d100           the difficulty d * 100
\*   options        the options argument: a function from some of the keys
\*                  isBoss, allowFlee to BOOLEAN
\* and how the caller plays the combat:
\*   burst          how many useSkill calls it issues before it lets the
\*                  first of them resume (2: a second call while one awaits)
\*   choices        the skill indices it passes to useSkill
Args(c, f, l, b, t, d, o, n, s) ==
    [cls |-> c, faction |-> f, locked |-> l, boss |-> b, etype |-> t, d100 |-> d,
     options |-> o, burst |-> n, choices |-> s]

NoOptions == [k \in {} |-> TRUE]
BossOption == [k \in {"isBoss"} |-> TRUE]
NoFleeOption == [k \in {"allowFlee"} |-> FALSE]

\* the startCombat calls explored
Scenarios ==
    {Args("warrior", "order", {}, FALSE, "wolf", 100, NoOptions, 1, {0, 8}),
     Args("warrior", "shadow", {1}, FALSE, "sand_wraith", 120, NoFleeOption, 2, {0, 1, 8}),
     Args("healer", "nature", {}, FALSE, "goblin", 100, NoOptions, 1, {0, 8}),
     Args("rogue", "shadow", {}, FALSE, "treant", 100, NoOptions, 1, {1, 3, 8}),
     Args("mage", "nature", {}, TRUE, "forest_guardian", 150, BossOption, 1, {1})}

NoArgs == Args("none", "none", {}, FALSE, "none", 0, NoOptions, 1, {0})

\* createCharacter: the fields of the character that combat reads and
\* never writes.  The character has maxHealth and maxMana but no maxHp.
Character(a) ==
    LET t == classTemplates[a.cls] IN
    [strength |-> t.strength, agility |-> t.agility,
     intelligence |-> t.intelligence, vitality |-> t.vitality,
     maxHealth |-> t.baseHealth + t.vitality * 5,
     maxMana |-> t.baseMana + t.intelligence * 3,
     maxHp |-> NaN,
     attack |-> t.strength,
     defense |-> Floor(Floor(t.vitality * 8, 10) * FactionDefense100(a.faction), 100),
     speed |-> t.agility,
     isBoss |-> FALSE,
     skills |-> t.skills]

\* generateEnemy / generateBoss: the fields of the enemy that combat reads
\* and never writes.  An enemy has no strength, agility, intelligence,
\* vitality, mana or maxMana.
Enemy(a) ==
    LET t == IF a.boss THEN bossTemplates[a.etype] ELSE enemyTemplates[a.etype]
        lv == IF a.boss THEN JsMax(10, Floor(a.d100 * 10, 100))
                        ELSE JsMax(1, Floor(a.d100 * 5, 100)) IN
    [strength |-> NaN, agility |-> NaN, intelligence |-> NaN, vitality |-> NaN,
     maxHp |-> Floor(t.hp * a.d100, 100),
     maxMana |-> NaN,
     attack |-> Floor(t.attack * a.d100, 100),
     defense |-> Floor(t.defense * a.d100, 100),
     speed |-> t.speed,
     level |-> lv,
     isBoss |-> a.boss,
     type |-> a.etype]

Stats(a, who) == IF who = "player" THEN Character(a) ELSE Enemy(a)

Other(who) == IF who = "player" THEN "enemy" ELSE "player"

\* the skill object at index i of the character's skill list (0-based)
PlayerSkill(a, i) == skillTemplates[classTemplates[a.cls].skills[i + 1]]
HasSkill(a, i) == i >= 0 /\ i < Len(classTemplates[a.cls].skills)

\* the fields combat writes, of the clone startCombat makes of the character
NewPlayer(a) ==
    [hp |-> Character(a).maxHealth, mana |-> Character(a).maxMana,
     cooldowns |-> [i \in 1..Len(Character(a).skills) |-> 0],
     statusEffects |-> <<>>]

\* the fields combat writes, of the clone startCombat makes of the enemy
\* (before initializeBoss)
NewEnemy(a) ==
    [hp |-> Enemy(a).maxHp, mana |-> NaN, statusEffects |-> <<>>,
     statusResistance100 |-> 0, hasBossData |-> FALSE, currentPhase |-> 0,
     triggeredPhases |-> {}, phaseAbilities |-> <<>>]

\* no character has been created
NoHero == [pc |-> "none"]

\* the GameEngine as constructed: no run, the statistics of a new
\* metaProgression.  reputation and buildingExp are those of the faction and
\* of each building; combat is the state of the promise of the last
\* combat.startCombat call and combatNode the node it was started for;
\* waiting holds the calls suspended at an await; applied counts the
\* applyRunRewards calls of the current run; last is the last call made
NewGame ==
    [isInRun |-> FALSE, activeRun |-> FALSE, currentNodeIndex |-> 0, nodes |-> <<>>,
     totalRuns |-> 0, totalVictories |-> 0, reputation |-> 0, buildingExp |-> 0,
     combat |-> "none", combatNode |-> 0, waiting |-> <<>>, applied |-> 0,
     last |-> [op |-> "new", victory |-> FALSE, ret |-> "void"]]

\* no chooseEnemyAction call has been made
NoAiCall == [op |-> "none"]

\* what an object no variable or pending continuation refers to is kept as
NoPlayer == [hp |-> NaN, mana |-> NaN, cooldowns |-> <<>>, statusEffects |-> <<>>]
NoEnemy ==
    [hp |-> NaN, mana |-> NaN, statusEffects |-> <<>>, statusResistance100 |-> 0,
     hasBossData |-> FALSE, currentPhase |-> 0, triggeredPhases |-> {},
     phaseAbilities |-> <<>>]

(* ---------------------------- status-effect maps ----------------------- *)
\* a Map from effect type to {duration}, in insertion order
Has(effs, t) == \E i \in DOMAIN effs : effs[i].type = t

\* Map.set: replaces the value of a present key in place, appends a new key
MapSet(effs, t, d) ==
    IF Has(effs, t)
    THEN [i \in DOMAIN effs |->
            IF effs[i].type = t THEN [type |-> t, duration |-> d] ELSE effs[i]]
    ELSE Append(effs, [type |-> t, duration |-> d])

(* ---------------------------- serialization --------------------------- *)
\* a JavaScript collection: an Array, a Set, a Map or a plain Object, with
\* its items in insertion order (the entries of a Map, the own enumerable
\* properties of an Object)
Coll(kind, items) == [kind |-> kind, items |-> items]

\* the fields of the saved values that hold a collection
CollFields == {"unlockedRecipes", "unlockedClasses", "flags", "nodes", "statusEffects"}

\* the fields saveMetaProgression and saveActiveRun add
TimestampFields == {"lastPlayed", "lastSaved"}

\* JSON.stringify of a collection: the text of an array with the items, or
\* the text of an object with the own enumerable properties; a Set and a Map
\* have none
StringifyColl(c) ==
    CASE c.kind = "Array" -> [text |-> "[]", items |-> c.items]
      [] c.kind = "Object" -> [text |-> "{}", items |-> c.items]
      [] OTHER -> [text |-> "{}", items |-> <<>>]

\* JSON.parse of such a text: an Array or a plain Object
ParseColl(t) == Coll(IF t.text = "[]" THEN "Array" ELSE "Object", t.items)

\* JSON.stringify(value) of an object of numbers, strings and collections
Stringify(v) ==
    [f \in DOMAIN v |-> IF f \in CollFields THEN StringifyColl(v[f]) ELSE v[f]]

\* JSON.parse(text)
Parse(t) == [f \in DOMAIN t |-> IF f \in CollFields THEN ParseColl(t[f]) ELSE t[f]]

\* { ...data, field: value }
Spread(data, field, value) ==
    [f \in DOMAIN data \cup {field} |-> IF f = field THEN value ELSE data[f]]

\* cloneEntity(entity)
CloneEntity(entity) == Parse(Stringify(entity))

\* GameEngine.metaProgression: the values saved (echoes, unlockedRecipes)
MetaProgressions ==
    {[echoes |-> e, unlockedRecipes |-> Coll("Set", r),
      unlockedClasses |-> Coll("Set", <<"warrior", "mage", "rogue", "healer">>)] :
       e \in {0, 25}, r \in {<<>>, <<"recipe">>}}

\* GameEngine.activeRun as startNewRun builds it: the values saved
ActiveRuns ==
    {[currentNodeIndex |-> i, nodes |-> Coll("Array", n), flags |-> Coll("Set", fl)] :
       i \in {0, 1},
       n \in {<<"combat", "rest", "boss">>, <<"event", "combat", "merchant", "boss">>},
       fl \in {<<>>, <<"flag">>}}

\* the entities cloned: a character of createCharacter, with the status
\* effects it carries
Entities ==
    {[hp |-> 105, statusEffects |-> Coll("Map", m)] :
       m \in {<<>>, <<[type |-> "poison", duration |-> 3]>>}}

\* Persistence.defaultMetaProgression
defaultMetaProgression ==
    [echoes |-> 0, unlockedRecipes |-> Coll("Array", <<>>),
     unlockedClasses |-> Coll("Array", <<"warrior", "mage", "rogue", "healer">>),
     lastPlayed |-> 0]

\* Persistence.keys
Keys == {"metaProgression", "activeRun"}

(* ---------------------------- map generation --------------------------- *)
\* Math.floor(w * n / d) for w, n >= 0
MulDiv(w, n, d) == (w \div d) * n + ((w % d) * n) \div d

\* randomInt(min, max), r the draw
RandomInt(min, max, r) == Floor(r * (max - min + 1), 100) + min

\* randomChoice(array), r the draw
RandomChoice(array, r) == array[Floor(r * Len(array), 100) + 1]

\* Object.keys(this.regions)
regionKeys == <<"forest", "desert", "ice", "ruins">>

\* Object.keys(this.nodeTypes), and the weight of each entry in the catalog
\* the constructor builds
nodeTypeKeys == <<"combat", "event", "resource", "merchant", "rest", "boss">>

catalogWeight ==
    [combat |-> 40, event |-> 25, resource |-> 20, merchant |-> 10, rest |-> 15,
     boss |-> 0]

\* the factors (* 10) selectNodeType multiplies weights by
Factors == {15, 13, 12, 5, 3}

\* this.nodeTypes as the constructor leaves it.  The weight of an entry is
\* kept as the number of times each factor has been multiplied into its
\* catalog weight.
NewNodeTypes == [k \in {nodeTypeKeys[i] : i \in DOMAIN nodeTypeKeys} |-> [f \in Factors |-> 0]]

\* weights[k].weight *= f / 10
Times(nt, k, f) == [nt EXCEPT ![k][f] = @ + 1]

Copies(f, n) == [i \in 1..n |-> f]

\* w times the factors of up and of down, to 1/100; the factors above 1 are
\* applied while the value is small, so that no intermediate value is large
RECURSIVE Scaled(_, _, _)
Scaled(w, up, down) ==
    IF up # <<>> /\ (w < 1000000 \/ down = <<>>)
    THEN Scaled(MulDiv(w, Head(up), 10), Tail(up), down)
    ELSE IF down # <<>>
    THEN Scaled(MulDiv(w, Head(down), 10), up, Tail(down))
    ELSE w

\* item.weight * 100 of the entry k
Weight100(nt, k) ==
    Scaled(catalogWeight[k] * 100,
           Copies(15, nt[k][15]) \o Copies(13, nt[k][13]) \o Copies(12, nt[k][12]),
           Copies(5, nt[k][5]) \o Copies(3, nt[k][3]))

RECURSIVE TotalWeight100(_, _)
TotalWeight100(nt, i) ==
    IF i > Len(nodeTypeKeys) THEN 0
    ELSE Weight100(nt, nodeTypeKeys[i]) + TotalWeight100(nt, i + 1)

\* the loop of weightedRandomChoice from entry i on, and its fallback
RECURSIVE PickKey(_, _, _)
PickKey(nt, random, i) ==
    IF i > Len(nodeTypeKeys) THEN nodeTypeKeys[1]
    ELSE IF random - Weight100(nt, nodeTypeKeys[i]) <= 0 THEN nodeTypeKeys[i]
    ELSE PickKey(nt, random - Weight100(nt, nodeTypeKeys[i]), i + 1)

\* weightedRandomChoice(weights), r the draw
WeightedRandomChoice(nt, r) == PickKey(nt, MulDiv(TotalWeight100(nt, 1), r, 100), 1)

\* selectNodeType's three weight changes.  weights is a shallow copy of
\* this.nodeTypes, so the entries multiplied are the entries of the catalog
\* itself.
\* nodeIndex === 0
FirstNodeWeights(nt, nodeIndex) ==
    IF nodeIndex = 0
    THEN Times(Times(Times(nt, "combat", 15), "event", 12), "rest", 5)
    ELSE nt

\* nodeIndex > 0 && nodeIndex < regionLength - 2
MiddleNodeWeights(nt, nodeIndex, regionLength) ==
    IF nodeIndex > 0 /\ nodeIndex < regionLength - 2
    THEN Times(Times(nt, "merchant", 15), "resource", 13)
    ELSE nt

\* nodeIndex >= regionLength - 2
EndNodeWeights(nt, nodeIndex, regionLength) ==
    IF nodeIndex >= regionLength - 2
    THEN Times(Times(nt, "merchant", 3), "combat", 13)
    ELSE nt

\* this.nodeTypes after selectNodeType(nodeIndex, regionLength)
AdjustWeights(nt, nodeIndex, regionLength) ==
    EndNodeWeights(MiddleNodeWeights(FirstNodeWeights(nt, nodeIndex),
                                     nodeIndex, regionLength),
                   nodeIndex, regionLength)

\* selectNodeType(nodeIndex, regionLength), r the draw: the type returned
SelectNodeType(nt, nodeIndex, regionLength, r) ==
    WeightedRandomChoice(AdjustWeights(nt, nodeIndex, regionLength), r)

\* the while loop of selectRegions, ds the draws of randomChoice
RECURSIVE SelectMore(_, _, _)
SelectMore(selected, count, ds) ==
    IF count > 0 /\ Len(regionKeys) > Len(selected)
    THEN SelectMore(Append(selected,
                           RandomChoice(SelectSeq(regionKeys,
                                                  LAMBDA k : \A i \in DOMAIN selected :
                                                               selected[i] # k),
                                        Head(ds))),
                    count - 1, Tail(ds))
    ELSE selected

\* selectRegions(count)
SelectRegions(count, ds) == SelectMore(<<"forest">>, count - 1, ds)

\* the while loop of selectRegions over a catalog whose keys are keys
RECURSIVE SelectMoreFrom(_, _, _, _)
SelectMoreFrom(keys, selected, count, ds) ==
    IF count > 0 /\ Len(keys) > Len(selected)
    THEN SelectMoreFrom(keys,
                        Append(selected,
                               RandomChoice(SelectSeq(keys,
                                                      LAMBDA k : \A i \in DOMAIN selected :
                                                                   selected[i] # k),
                                            Head(ds))),
                        count - 1, Tail(ds))
    ELSE selected

\* selectRegions(count) over a catalog whose keys are keys
SelectRegionsFrom(keys, count, ds) == SelectMoreFrom(keys, <<"forest">>, count - 1, ds)

\* region catalogs: the one the constructor builds and its leading parts
Catalogs == {SubSeq(regionKeys, 1, n) : n \in 1..Len(regionKeys)}

\* variant: a boss node at the end of every region
IsBossNode_EveryRegion(regionIndex, totalRegions, i, regionLength) ==
    i = regionLength - 1

\* isBossNode of generateRegion
IsBossNode(regionIndex, totalRegions, i, regionLength) ==
    regionIndex = totalRegions - 1 /\ i = regionLength - 1

\* no generateRun call is executing, none has returned
NoRun ==
    [pc |-> "idle", keys |-> regionKeys, chosen |-> <<>>,
     regionCount |-> 0, selected |-> <<>>, regionIndex |-> 0,
     regionLength |-> 0, i |-> 0, regions |-> 0, nodes |-> 0, bossNodes |-> 0,
     lastType |-> "none", twinType |-> "none"]

(* ---------------------------- state ------------------------------------ *)
VARIABLES
    args,           \* the arguments of the last startCombat call
    isActive,       \* this.isActive
    currentTurn,    \* this.currentTurn
    turnCounter,    \* this.turnCounter
    attached,       \* this.player and this.enemy are set (not null)
    player,         \* the character clone made by startCombat
    enemy,          \* the enemy clone made by startCombat
    combatOptions,  \* this.combatOptions
    combatResolve,  \* this.combatResolve holds a resolver
    results,        \* the results the combat promise was resolved with
    timers,         \* pending setTimeout callbacks that run executeEnemyTurn
    inflight,       \* useSkill calls suspended at await executeSkill, in order
    phaseLog,       \* phase indices passed to ui.showBossPhaseTransition
    hits,           \* the dealDamage calls on a boss made by the last step
    death,          \* who the last step brought to 0 hp, and what it ran afterwards
    lastCall,       \* the last call made and what it returned
    given,          \* the player and enemy objects passed to startCombat
    shared,         \* which of them this.player / this.enemy are (not copies)
    snapshots,      \* the snapshots the last step passed to ui.updateCombatInfo
    fault,          \* the exception raised in the enemy's action of the last step
    enemyTurn,      \* history: the enemy's turn of the last step acted, defended
                    \* (its defense_boost was applied) or was skipped
    nodeTypes,      \* the MapGenerator's this.nodeTypes
    twin,           \* this.nodeTypes of a generator constructed for the current run
    run,            \* the generateRun call executing, or the last one returned
    runs,           \* the number of generateRun calls that have returned
    localStorage,   \* localStorage: per key the item stored, if any
    saved,          \* per key the value the item stored was saved from
    loaded,         \* the last load or clone: what was saved, what came back
    ai,             \* the last chooseEnemyAction call: the enemy and what was chosen
    hero,           \* the character addExperienceToCharacter works on, and its loop
    game            \* the GameEngine: its run, its statistics, its suspended calls

vars == <<args, isActive, currentTurn, turnCounter, attached, player, enemy,
          combatOptions, combatResolve, results, timers, inflight, phaseLog, hits,
          death, lastCall, given, shared, snapshots, fault, enemyTurn, nodeTypes,
          twin, run, runs, localStorage, saved, loaded, ai, hero, game>>

combatVars == <<args, isActive, currentTurn, turnCounter, attached, player, enemy,
                combatOptions, combatResolve, results, timers, inflight, phaseLog,
                hits, death, lastCall, given, shared, snapshots, fault, enemyTurn>>

mapVars == <<nodeTypes, twin, run, runs>>

saveVars == <<localStorage, saved, loaded>>

aiVars == <<ai>>

\* the state of the Entities and GameEngine objects
engineVars == <<hero, game>>

\* the draws one calculateCombatRewards call consumes: randomInt(5, 15), the
\* drop roll and, for a boss, randomInt(2, 5)
RewardDraws(a) ==
    [gold : VarDraws, drop : VarDraws,
     essences : IF Enemy(a).isBoss THEN VarDraws ELSE {0}]

NoRewardDraws == [gold |-> 0, drop |-> 0, essences |-> 0]

\* the part of the state one handler works on; rw: the draws of
\* calculateCombatRewards, should the handler call it; exc: an exception is
\* propagating
World ==
    [isActive |-> isActive, currentTurn |-> currentTurn, turnCounter |-> turnCounter,
     attached |-> attached, player |-> player, enemy |-> enemy,
     combatResolve |-> combatResolve, results |-> results, timers |-> timers,
     phaseLog |-> phaseLog, hits |-> <<>>, died |-> "none", late |-> {},
     ui |-> <<>>, fault |-> "none", enemyTurn |-> "none", rw |-> NoRewardDraws,
     exc |-> FALSE]

Throw(w) == [w EXCEPT !.exc = TRUE]
Caught(w) == [w EXCEPT !.exc = FALSE]

Obj(w, who) == IF who = "player" THEN w.player ELSE w.enemy
SetObj(w, who, o) ==
    IF who = "player" THEN [w EXCEPT !.player = o] ELSE [w EXCEPT !.enemy = o]

(* ---------------------------- skill resolution ------------------------- *)
\* sequencing: the statements K that follow run on the world w unless an
\* exception is propagating
Try(w, K(_)) == IF w.exc THEN w ELSE K(w)

\* const x = v; the statements K that follow
With(v, K(_)) == K(v)

Last(q) == q[Len(q)]

\* updateCombatUI, with the game engine and its ui connected: the snapshot
\* passed to ui.updateCombatInfo (player and enemy are passed by reference)
UpdateCombatUI(w) ==
    [w EXCEPT !.ui = Append(@, [currentTurn |-> w.currentTurn,
                                turnCounter |-> w.turnCounter])]

\* target.hp = hp
SetHp(w, who, hp) == SetObj(w, who, [Obj(w, who) EXCEPT !.hp = hp])

\* history: who the handler brought to 0 hp first, and the turn processing
\* it ran after that
Died(w, who) == IF w.died = "none" /\ w.isActive THEN [w EXCEPT !.died = who] ELSE w
AfterDeath(w, what) == IF w.died # "none" THEN [w EXCEPT !.late = @ \cup {what}] ELSE w

\* getEnemyBasicAttack
EnemyBasicAttack(a) ==
    Skill("attack", 0, 0, JsOr(Enemy(a).attack, 10), 0, "physical", 1, 100, 90, <<>>)

\* getBossSkill: the skill of a known ability name, <<>> for null
BossSkill(n) ==
    CASE n = "nature_heal" ->
           <<Skill("nature's blessing", 0, 3, 0, 50, "magic", 5, 0, 0, <<>>)>>
      [] n = "root_entangle" ->
           <<Skill("root entangle", 0, 4, 25, 0, "nature", NaN, 0, 0,
                   <<Eff("stunned", 1, 80)>>)>>
      [] n = "ice_storm" ->
           <<Skill("ice storm", 0, 5, 40, 0, "magic", NaN, 0, 0,
                   <<Eff("frozen", 1, 40)>>)>>
      [] OTHER -> <<>>

\* getRelevantAttackStat
RelevantAttackStat(e, skill) ==
    CASE skill.type = "physical" -> e.strength
      [] skill.type = "magic" -> e.intelligence
      [] skill.type = "ranged" -> e.agility
      [] OTHER -> JsOr(e.attack, e.strength)

\* calculateDamage, r the variance draw:
\*   max(1, floor((damage + stat * scalingFactor) * (1 - def / (def + 100))
\*                * (0.85 + 0.3 r) * modifiers))
CalculateDamage(a, w, caster, skill, r) ==
    LET att == Stats(a, caster)
        def == Stats(a, Other(caster))
        stat == RelevantAttackStat(att, skill)
        aEff == Obj(w, caster).statusEffects
        dEff == Obj(w, Other(caster)).statusEffects
        \* modifiers as a fraction mn / md
        mn == (IF Has(aEff, "strength_boost") THEN 12 ELSE 10)
              * (IF Has(aEff, "weakness") THEN 7 ELSE 10)
              * (IF Has(dEff, "defense_boost") THEN 7 ELSE 10)
        raw10 == skill.damage * 10 + stat * skill.sf10
    IN  IF stat = NaN \/ skill.sf10 = NaN THEN NaN
        ELSE JsMax(1, Floor(raw10 * (850 + 3 * r) * mn,
                            100 * (def.defense + 100) * 1000))

\* calculateHealing
CalculateHealing(a, w, caster, skill) ==
    LET c == Stats(a, caster)
        stat == IF skill.type = "magic" THEN c.intelligence ELSE c.vitality
        eff == Obj(w, caster).statusEffects
        m == (IF Has(eff, "blessed") THEN 13 ELSE 10)
             * (IF Has(eff, "curse") THEN 7 ELSE 10)
    IN  IF stat = NaN \/ skill.sf10 = NaN THEN NaN
        ELSE Floor((skill.healing * 10 + stat * skill.sf10) * m, 1000)

\* checkCritical, r the draw: r < (criticalChance || 0.1) + agility * 0.001,
\* the chance times 1.5 when the attacker is focused
CheckCritical(a, w, caster, skill, r) ==
    LET agi == Stats(a, caster).agility
        c1000 == JsAdd(JsOr(skill.crit1000, 100), agi)
    IN  IF c1000 = NaN THEN FALSE
        ELSE IF Has(Obj(w, caster).statusEffects, "focused")
             THEN r * 20 < c1000 * 3
             ELSE r * 10 < c1000

\* checkHit, r the draw: r < clamp((accuracy || 0.9) + 0.01 * speed
\* difference, times 1.3 / 0.8 for a blinded / speed-boosted defender)
CheckHit(a, w, caster, skill, r) ==
    LET h100 == JsOr(skill.acc100, 90)
                + (Stats(a, caster).speed - Stats(a, Other(caster)).speed)
        dEff == Obj(w, Other(caster)).statusEffects
        h10000 == h100 * (IF Has(dEff, "blinded") THEN 13 ELSE 10)
                       * (IF Has(dEff, "speed_boost") THEN 8 ELSE 10)
        clamped == JsMax(1000, JsMin(9500, h10000))
    IN  r * 100 < clamped

\* the effects of the skill whose application roll succeeds, in list order
RECURSIVE RolledEffects(_, _, _)
RolledEffects(effs, rolls, i) ==
    IF i > Len(effs) THEN <<>>
    ELSE (IF rolls[i] < effs[i].chance100
          THEN <<[type |-> effs[i].type, duration |-> effs[i].duration]>>
          ELSE <<>>) \o RolledEffects(effs, rolls, i + 1)

\* the draws one executeSkill call consumes: variance, critical, hit, one
\* per listed status effect, and the named-skill roll
\* (the three damage draws are fixed when they cannot change the result:
\* the skill has no damage component, or its damage is NaN)
SkillDraws(skill, numeric) ==
    [var : IF JsGt(skill.damage, 0) /\ numeric THEN VarDraws ELSE {0},
     crit : IF JsGt(skill.damage, 0) /\ numeric THEN Draws ELSE {0},
     hit : IF JsGt(skill.damage, 0) /\ numeric THEN Draws ELSE {0},
     eff : [1..Len(skill.statusEffects) -> Draws],
     special : IF skill.name = "fireball" THEN Draws ELSE {0}]

\* applySpecialSkillEffects.  The names the switch matches after
\* toLowerCase() are "charge" and "fireball" ("Ice Storm" and "Shadow Step"
\* lower-case to names with a space, which match no case); the charge case
\* acts for an enemy caster only, and no enemy has a skill of that name.
ApplySpecialSkillEffects(skill, res, d) ==
    IF skill.name = "fireball"
    THEN [res EXCEPT !.hit = TRUE,
                     !.statusEffects =
                        IF d.special < 30
                        THEN Append(@, [type |-> "burning", duration |-> 2])
                        ELSE @]
    ELSE res

\* executeSkill up to its return: the result record
ExecuteSkill(a, w, caster, skill, d) ==
    LET dmg0 == CalculateDamage(a, w, caster, skill, d.var)
        crit == CheckCritical(a, w, caster, skill, d.crit)
        hit == CheckHit(a, w, caster, skill, d.hit)
        dmg1 == IF crit THEN JsAdd(dmg0, dmg0) ELSE dmg0
        res == [caster |-> caster,
                skill |-> skill,
                damage |-> IF JsGt(skill.damage, 0)
                           THEN (IF hit THEN dmg1 ELSE 0) ELSE 0,
                critical |-> JsGt(skill.damage, 0) /\ crit,
                hit |-> IF JsGt(skill.damage, 0) THEN hit ELSE TRUE,
                healing |-> IF JsGt(skill.healing, 0)
                            THEN CalculateHealing(a, w, caster, skill) ELSE 0,
                statusEffects |-> RolledEffects(skill.statusEffects, d.eff, 1)]
    IN  ApplySpecialSkillEffects(skill, res, d)

(* ---------------------------- the engine's operations ------------------ *)
\* calculateExperienceGain; the enemy has no difficulty field, so the
\* difficulty bonus is floor(baseExp * 1.0)
CalculateExperienceGain(a) ==
    LET baseExp == Enemy(a).level * 10 IN
    baseExp + baseExp + (IF Enemy(a).isBoss THEN baseExp ELSE 0)

\* calculateCombatRewards, x its draws: the gold, the types of the items
\* (generateRandomItem, generateBossItem) and the essences (NaN: none)
CalculateCombatRewards(a, x) ==
    [gold |-> RandomInt(5, 15, x.gold) + Enemy(a).level,
     items |-> (IF x.drop < (IF Enemy(a).isBoss THEN 80 ELSE 30)
                THEN <<"consumable">> ELSE <<>>)
               \o (IF Enemy(a).isBoss THEN <<"trophy">> ELSE <<>>),
     essences |-> IF Enemy(a).isBoss THEN RandomInt(2, 5, x.essences) ELSE NaN]

\* cleanup
Cleanup(w) ==
    [w EXCEPT !.attached = FALSE, !.currentTurn = "player", !.turnCounter = 0]

\* variant: endCombat resolving whether or not a resolver is stored
ResolvePromise_Always(w, res) ==
    [w EXCEPT !.results = Append(@, res), !.combatResolve = FALSE]

\* the tail of endCombat: resolve the combat promise if a resolver is stored
ResolvePromise(w, res) ==
    IF w.combatResolve
    THEN [w EXCEPT !.results = Append(@, res), !.combatResolve = FALSE]
    ELSE w

\* variant: results that carry experience and rewards whatever the outcome
CombatResults_Rewarded(a, w, victory, reason) ==
    [victory |-> victory, reason |-> reason, turnCount |-> w.turnCounter,
     experience |-> CalculateExperienceGain(a),
     rewards |-> <<CalculateCombatRewards(a, w.rw)>>]

\* the results object of endCombat: experience and rewards are set in the
\* victory branch only (experience is NaN, rewards <<>> when the field is
\* missing)
CombatResults(a, w, victory, reason) ==
    [victory |-> victory, reason |-> reason, turnCount |-> w.turnCounter,
     experience |-> IF victory THEN CalculateExperienceGain(a) ELSE NaN,
     rewards |-> IF victory THEN <<CalculateCombatRewards(a, w.rw)>> ELSE <<>>]

\* endCombat(victory, reason).  With this.enemy null, the victory branch
\* throws a TypeError in calculateExperienceGain, after isActive was cleared.
EndCombat(a, w, victory, reason) ==
    With([w EXCEPT !.isActive = FALSE,
                   !.late = IF w.died # "none" /\ ~w.isActive
                            THEN @ \cup {"endCombat"} ELSE @],
         LAMBDA w1 :
           IF victory /\ ~w.attached THEN Throw(w1)
           ELSE ResolvePromise(Cleanup(w1), CombatResults(a, w, victory, reason)))

\* variant: a scan over all phases that forgets the triggered ones
PhaseCandidates_All(e, phases, maxHp) ==
    {i \in 0..(Len(phases) - 1) :
       /\ e.hp # NaN
       /\ e.hp * 100 <= phases[i + 1].hpThreshold100 * maxHp}

\* the phases the scan of checkBossPhaseTransition can stop at: from
\* currentPhase on, threshold >= hp / maxHp, not triggered before
PhaseCandidates(e, phases, maxHp) ==
    {i \in e.currentPhase..(Len(phases) - 1) :
       /\ e.hp # NaN
       /\ e.hp * 100 <= phases[i + 1].hpThreshold100 * maxHp
       /\ i \notin e.triggeredPhases}

\* variant: a scan without the break
PhasesToFire_All(cands) == cands

\* variant: a scan that fires the deepest phase met
PhasesToFire_Last(cands) ==
    IF cands = {} THEN {} ELSE {CHOOSE i \in cands : \A j \in cands : i >= j}

\* the phases one scan of checkBossPhaseTransition fires, of the phases
\* whose condition holds: the loop breaks at the first one
PhasesToFire(cands) ==
    IF cands = {} THEN {} ELSE {CHOOSE i \in cands : \A j \in cands : i <= j}

RECURSIVE Ascending(_)
Ascending(S) ==
    IF S = {} THEN <<>>
    ELSE LET m == CHOOSE i \in S : \A j \in S : i <= j
         IN  <<m>> \o Ascending(S \ {m})

RECURSIVE AbilitiesOf(_, _)
AbilitiesOf(phases, fired) ==
    IF fired = <<>> THEN <<>>
    ELSE phases[Head(fired) + 1].abilities \o AbilitiesOf(phases, Tail(fired))

\* checkBossPhaseTransition(boss) for a boss with bossData; the result is
\* the world and the indices fired
CheckBossPhaseTransition(a, w, before) ==
    With(PhasesToFire(PhaseCandidates(w.enemy, bossPhases[a.etype], Enemy(a).maxHp)),
         LAMBDA S :
           [w EXCEPT
              !.enemy = IF S = {} THEN w.enemy
                        ELSE [w.enemy EXCEPT
                                !.triggeredPhases = @ \cup S,
                                !.currentPhase = Last(Ascending(S)) + 1,
                                !.phaseAbilities =
                                   @ \o AbilitiesOf(bossPhases[a.etype], Ascending(S))],
              !.phaseLog = @ \o Ascending(S),
              !.hits = Append(@, [before |-> before, after |-> w.enemy.hp,
                                  triggered |-> w.enemy.triggeredPhases,
                                  fired |-> Ascending(S)])])

\* dealDamage(target, damage); who names the target object.  The test
\* target === this.player is false once this.player is null.
DealDamage(a, w, who, damage) ==
    With(JsMax(0, JsSub(Obj(w, who).hp, damage)),
         LAMBDA hp1 :
           With(IF JsLe(hp1, 0)
                THEN EndCombat(a, Died(SetHp(w, who, hp1), who),
                               ~(who = "player" /\ w.attached),
                               IF who = "player" /\ w.attached
                               THEN "Player defeated" ELSE "Enemy defeated")
                ELSE SetHp(w, who, hp1),
                LAMBDA w2 :
                  IF ~w2.exc /\ who = "enemy" /\ Enemy(a).isBoss /\ w2.enemy.hasBossData
                  THEN CheckBossPhaseTransition(a, w2, w.enemy.hp)
                  ELSE w2))

\* healEntity(target, healing): the cap reads target.maxHp
HealEntity(a, w, who, healing) ==
    SetHp(w, who,
          JsAdd(Obj(w, who).hp,
                JsMin(healing, JsSub(Stats(a, who).maxHp, Obj(w, who).hp))))

\* target.statusResistance || 0: only initializeBoss sets the field
Resistance100(w, who) == IF who = "enemy" THEN w.enemy.statusResistance100 ELSE 0

\* applyStatusEffect(target, effectType, duration), r the resistance draw
ApplyStatusEffect(w, who, type, duration, r) ==
    IF r < Resistance100(w, who) THEN w
    ELSE SetObj(w, who, [Obj(w, who) EXCEPT !.statusEffects = MapSet(@, type, duration)])

\* Math.floor(entity.maxHp * perTurn) of applyStatusEffectTick
TickAmount(maxHp, perTurn100) ==
    IF maxHp = NaN THEN NaN ELSE Floor(maxHp * perTurn100, 100)

\* effect.duration-- of processStatusEffects, for entry i
DecrementDuration(w, who, i) ==
    SetObj(w, who, [Obj(w, who) EXCEPT !.statusEffects[i].duration = @ - 1])

\* variant: a removal that keeps an effect whose duration has reached 0
RemoveExpired_BelowZero(w, who) ==
    SetObj(w, who, [Obj(w, who) EXCEPT
                      !.statusEffects = SelectSeq(@, LAMBDA e : e.duration >= 0)])

\* the removal of the expired effects in processStatusEffects
RemoveExpired(w, who) ==
    SetObj(w, who, [Obj(w, who) EXCEPT
                      !.statusEffects = SelectSeq(@, LAMBDA e : e.duration > 0)])

\* caster.mana -= skill.manaCost; skill.currentCooldown = skill.cooldown
\* (idx is the index of the skill in the player's list; the enemy's skills
\* are fresh objects, idx = -1)
PayCost(c, skill, idx) ==
    [c EXCEPT !.mana = JsSub(@, skill.manaCost),
              !.cooldowns = IF idx >= 0 THEN [@ EXCEPT ![idx + 1] = skill.cooldown]
                            ELSE @]

\* applyStatusEffectTick(entity, effectType, effect)
ApplyStatusEffectTick(a, w, who, type) ==
    Try(IF DamagePerTurn100(type) > 0
        THEN DealDamage(a, AfterDeath(w, "tick"), who,
                        TickAmount(Stats(a, who).maxHp, DamagePerTurn100(type)))
        ELSE AfterDeath(w, "tick"),
        LAMBDA w1 :
          IF HealPerTurn100(type) > 0
          THEN HealEntity(a, w1, who,
                          TickAmount(Stats(a, who).maxHp, HealPerTurn100(type)))
          ELSE w1)

\* the forEach of processStatusEffects from entry i on: tick, then
\* decrement the duration
RECURSIVE TickEffects(_, _, _, _)
TickEffects(a, w, who, i) ==
    IF w.exc \/ i > Len(Obj(w, who).statusEffects) THEN w
    ELSE Try(ApplyStatusEffectTick(a, w, who, Obj(w, who).statusEffects[i].type),
             LAMBDA w1 : TickEffects(a, DecrementDuration(w1, who, i), who, i + 1))

\* processStatusEffects(this.player) / (this.enemy): a TypeError when the
\* field is null
ProcessStatusEffects(a, w, who) ==
    IF ~w.attached THEN Throw(w)
    ELSE Try(TickEffects(a, w, who, 1), LAMBDA w1 : RemoveExpired(w1, who))

\* variant: an updateCooldowns that decrements without testing the counter
UpdateCooldowns_Unguarded(w, who) ==
    IF ~w.attached THEN Throw(w)
    ELSE IF who = "player"
         THEN [AfterDeath(w, "cooldowns") EXCEPT
                 !.player.cooldowns = [i \in DOMAIN @ |-> @[i] - 1]]
         ELSE w

\* variant: an updateCooldowns that decays nothing
UpdateCooldowns_None(w, who) == IF ~w.attached THEN Throw(w) ELSE w

\* updateCooldowns(this.player) / (this.enemy): a TypeError when the field
\* is null; an enemy has no skills list
UpdateCooldowns(w, who) ==
    IF ~w.attached THEN Throw(w)
    ELSE IF who = "player"
         THEN [AfterDeath(w, "cooldowns") EXCEPT
                 !.player.cooldowns =
                    [i \in DOMAIN @ |-> IF @[i] > 0 THEN @[i] - 1 ELSE @[i]]]
         ELSE w

\* variant: a player turn end that counts a turn as well
EndPlayerTurn_Counting(a, w) ==
    Try(ProcessStatusEffects(a, w, "player"),
        LAMBDA w1 :
          Try(UpdateCooldowns(w1, "player"),
              LAMBDA w2 :
                UpdateCombatUI([AfterDeath(w2, "timer") EXCEPT !.currentTurn = "enemy",
                                                               !.turnCounter = @ + 1,
                                                               !.timers = @ + 1])))

\* endPlayerTurn
EndPlayerTurn(a, w) ==
    Try(ProcessStatusEffects(a, w, "player"),
        LAMBDA w1 :
          Try(UpdateCooldowns(w1, "player"),
              LAMBDA w2 :
                UpdateCombatUI([AfterDeath(w2, "timer") EXCEPT !.currentTurn = "enemy",
                                                               !.timers = @ + 1])))

\* endEnemyTurn
EndEnemyTurn(a, w) ==
    Try(ProcessStatusEffects(a, w, "enemy"),
        LAMBDA w1 :
          Try(UpdateCooldowns(w1, "enemy"),
              LAMBDA w2 :
                UpdateCombatUI([w2 EXCEPT !.currentTurn = "player",
                                          !.turnCounter = @ + 1])))

\* the statusEffects.forEach of applySkillResult, rs the resistance draws
RECURSIVE ApplyEffects(_, _, _, _, _)
ApplyEffects(w, who, effs, rs, i) ==
    IF i > Len(effs) THEN w
    ELSE ApplyEffects(ApplyStatusEffect(w, who, effs[i].type, effs[i].duration, rs[i]),
                      who, effs, rs, i + 1)

\* applySkillResult(result); idx is the index of the skill in the player's
\* list (the enemy's skills are fresh objects, idx = -1)
ApplySkillResult(a, w, res, idx, rs) ==
    Try(IF JsGt(res.damage, 0) /\ res.hit
        THEN DealDamage(a, w, Other(res.caster), res.damage) ELSE w,
        LAMBDA w1 :
          With(ApplyEffects(IF JsGt(res.healing, 0)
                            THEN HealEntity(a, w1, res.caster, res.healing) ELSE w1,
                            Other(res.caster), res.statusEffects, rs, 1),
               LAMBDA w3 :
                 SetObj(w3, res.caster, PayCost(Obj(w3, res.caster), res.skill, idx))))

(* ---------------------------- enemy AI --------------------------------- *)
\* enemy.type.includes(s), over the types of the enemy and boss tables
TypeIncludes(t, s) ==
    CASE s = "giant" -> t = "frost_giant"
      [] s = "lich" -> t = "lich"
      [] OTHER -> FALSE

\* Combat.aiPatterns: priorities with the cumulative weights * 100
aiPatterns ==
    [aggressive |-> <<[p |-> "attack", c |-> 60], [p |-> "special", c |-> 90],
                      [p |-> "buff", c |-> 100]>>,
     defensive |-> <<[p |-> "defend", c |-> 40], [p |-> "attack", c |-> 80],
                     [p |-> "heal", c |-> 100]>>,
     tactical |-> <<[p |-> "debuff", c |-> 30], [p |-> "attack", c |-> 70],
                    [p |-> "special", c |-> 100]>>,
     berserker |-> <<[p |-> "attack", c |-> 50], [p |-> "attack", c |-> 80],
                     [p |-> "special", c |-> 100]>>]

\* getEnemyActionOfType: getEnemySpecialSkill, getEnemyBuffSkill and
\* getEnemyDebuffSkill return null and enemyCanHeal returns false
EnemyActionOfType(a, p) ==
    IF p = "defend" THEN [type |-> "defend", skill |-> EnemyBasicAttack(a)]
    ELSE [type |-> "attack", skill |-> EnemyBasicAttack(a)]

\* checkBossPhaseAction, pa the 30% draw and pc the randomChoice draw:
\* <<action>> or <<>> for null
BossPhaseAction(w, pa, pc) ==
    LET ab == w.enemy.phaseAbilities IN
    IF ab = <<>> \/ ~(pa < 30) THEN <<>>
    ELSE LET sk == BossSkill(ab[Floor(pc * Len(ab), 100) + 1]) IN
         IF sk = <<>> THEN <<>> ELSE <<[type |-> "special", skill |-> sk[1]]>>

\* variant: the hp rule tried before the type rules
AiPattern_HpFirst(a, w) ==
    IF TypeIncludes(Enemy(a).type, "berserker")
       \/ JsLt(w.enemy.hp * 10, Enemy(a).maxHp * 3)
    THEN "berserker"
    ELSE IF TypeIncludes(Enemy(a).type, "giant") \/ TypeIncludes(Enemy(a).type, "tank")
    THEN "defensive"
    ELSE IF TypeIncludes(Enemy(a).type, "mage") \/ TypeIncludes(Enemy(a).type, "lich")
    THEN "tactical"
    ELSE "aggressive"

\* the if / else-if chain of chooseEnemyAction: the name of the AI pattern
AiPattern(a, w) ==
    IF TypeIncludes(Enemy(a).type, "giant") \/ TypeIncludes(Enemy(a).type, "tank")
    THEN "defensive"
    ELSE IF TypeIncludes(Enemy(a).type, "mage") \/ TypeIncludes(Enemy(a).type, "lich")
    THEN "tactical"
    ELSE IF TypeIncludes(Enemy(a).type, "berserker")
            \/ JsLt(w.enemy.hp * 10, Enemy(a).maxHp * 3)
    THEN "berserker"
    ELSE "aggressive"

\* chooseEnemyAction, pt the pattern draw
ChooseEnemyAction(a, w, pa, pc, pt) ==
    LET e == Enemy(a)
        phase == IF e.isBoss /\ w.enemy.hasBossData
                 THEN BossPhaseAction(w, pa, pc) ELSE <<>>
        pattern == aiPatterns[AiPattern(a, w)]
        match == {i \in DOMAIN pattern : pt < pattern[i].c}
    IN  IF phase # <<>> THEN phase[1]
        ELSE IF match = {} THEN [type |-> "attack", skill |-> EnemyBasicAttack(a)]
        ELSE EnemyActionOfType(a, pattern[CHOOSE i \in match : \A j \in match : i <= j].p)

\* executeEnemyAction(action)
ExecuteEnemyAction(a, w, action, d, r) ==
    IF action.type = "defend"
    THEN ApplyStatusEffect([w EXCEPT !.enemyTurn = IF r < Resistance100(w, "enemy")
                                                   THEN @ ELSE "defended"],
                           "enemy", "defense_boost", 1, r)
    ELSE ApplySkillResult(a, w, ExecuteSkill(a, w, "enemy", action.skill, d), -1,
                          [i \in 1..(Len(action.skill.statusEffects) + 1) |-> 0])

\* variant: an enemy that acts whatever it carries
Incapacitated_Never(w) == FALSE

\* the enemy cannot act: the test at the head of the try block
Incapacitated(w) ==
    Has(w.enemy.statusEffects, "stunned") \/ Has(w.enemy.statusEffects, "frozen")

\* an exception f raised by a callee is propagating
Raise(w, f) == Throw([w EXCEPT !.fault = f])

\* chooseEnemyAction and executeEnemyAction, with the exception f raised
\* inside them
EnemyAction(a, w, pa, pc, pt, d, r, f) ==
    IF f = "choose" THEN Raise(w, f)
    ELSE Try(ExecuteEnemyAction(a, w, ChooseEnemyAction(a, w, pa, pc, pt), d, r),
             LAMBDA w1 : IF f = "execute" THEN Raise(w1, f) ELSE w1)

\* the try block of executeEnemyTurn
EnemyTurnBody(a, w, pa, pc, pt, d, r, f) ==
    Try(IF Incapacitated(w) THEN [w EXCEPT !.enemyTurn = "skipped"]
        ELSE EnemyAction(a, [w EXCEPT !.enemyTurn = "acted"], pa, pc, pt, d, r, f),
        LAMBDA w1 : EndEnemyTurn(a, w1))

\* variant: a catch block that only logs the error
ExecuteEnemyTurn_LogOnly(a, w, pa, pc, pt, d, r, f) ==
    Caught(EnemyTurnBody(a, w, pa, pc, pt, d, r, f))

\* executeEnemyTurn past its guard: the catch block calls endEnemyTurn again
ExecuteEnemyTurn(a, w, pa, pc, pt, d, r, f) ==
    With(EnemyTurnBody(a, w, pa, pc, pt, d, r, f),
         LAMBDA w1 : IF w1.exc THEN EndEnemyTurn(a, Caught(w1)) ELSE w1)

\* the draws one enemy turn consumes: the boss-phase roll pa and choice pc,
\* the pattern roll pt, the resistance roll r of a defend action and the
\* draws d of executeSkill (each fixed when the code does not read it), and
\* the exception f raised in the action
EnemyTurnDraws(a, w) ==
    UNION {With(ChooseEnemyAction(a, w, pa, pc, pt),
                LAMBDA action :
                  {[pa |-> pa, pc |-> pc, pt |-> pt, r |-> r, d |-> d, f |-> f] :
                     f \in (IF Incapacitated(w) THEN {"none"} ELSE Faults),
                     r \in (IF action.type = "defend" /\ w.enemy.statusResistance100 > 0
                            THEN Draws ELSE {0}),
                     d \in SkillDraws(action.skill,
                                      /\ action.type # "defend"
                                      /\ RelevantAttackStat(Enemy(a), action.skill) # NaN
                                      /\ action.skill.sf10 # NaN)}) :
           pa \in (IF w.enemy.phaseAbilities # <<>> THEN Draws ELSE {0}),
           pc \in (IF w.enemy.phaseAbilities # <<>> THEN Draws ELSE {0}),
           pt \in Draws}

\* the worlds executeEnemyTurn can end in
EnemyTurnOutcomes(a, w) ==
    {ExecuteEnemyTurn(a, w, x.pa, x.pc, x.pt, x.d, x.r, x.f) : x \in EnemyTurnDraws(a, w)}

(* ---------------------------- actions ---------------------------------- *)
Call(op, arg, ret) == [op |-> op, arg |-> arg, ret |-> ret]

Init ==
    /\ args = NoArgs
    /\ isActive = FALSE
    /\ currentTurn = "player"
    /\ turnCounter = 0
    /\ attached = FALSE
    /\ player = NoPlayer
    /\ enemy = NoEnemy
    /\ combatOptions = [isBoss |-> FALSE, allowFlee |-> TRUE]
    /\ combatResolve = FALSE
    /\ results = <<>>
    /\ timers = 0
    /\ inflight = <<>>
    /\ phaseLog = <<>>
    /\ hits = <<>>
    /\ death = [who |-> "none", late |-> {}]
    /\ lastCall = Call("new", 0, "void")
    /\ given = [player |-> NoPlayer, enemy |-> NoEnemy]
    /\ shared = {}
    /\ snapshots = <<>>
    /\ fault = "none"
    /\ enemyTurn = "none"
    /\ nodeTypes = NewNodeTypes
    /\ twin = NewNodeTypes
    /\ run = NoRun
    /\ runs = 0
    /\ localStorage = [k \in Keys |-> <<>>]
    /\ saved = [k \in Keys |-> <<>>]
    /\ loaded = [op |-> "none", from |-> <<>>, value |-> <<>>]
    /\ ai = NoAiCall
    /\ hero = NoHero
    /\ game = NewGame

\* the end of a handler: the world becomes the state; entity objects that
\* nothing refers to any more are dropped.  g and sh are the objects passed
\* to startCombat and the ones of them the engine works on: what the handler
\* wrote to its player or enemy it wrote to such an object.
CommitWith(w, fl, call, g, sh) ==
    /\ given' = [who \in {"player", "enemy"} |->
                   IF who \in sh THEN Obj(w, who) ELSE g[who]]
    /\ shared' = sh
    /\ snapshots' = w.ui
    /\ fault' = w.fault
    /\ enemyTurn' = w.enemyTurn
    /\ isActive' = w.isActive
    /\ currentTurn' = w.currentTurn
    /\ turnCounter' = w.turnCounter
    /\ attached' = w.attached
    /\ player' = IF ~w.attached /\ fl = <<>> THEN NoPlayer ELSE w.player
    /\ enemy' = IF ~w.attached /\ fl = <<>> THEN NoEnemy ELSE w.enemy
    /\ combatResolve' = w.combatResolve
    /\ results' = w.results
    /\ timers' = w.timers
    /\ phaseLog' = w.phaseLog
    /\ hits' = w.hits
    /\ death' = [who |-> w.died, late |-> w.late]
    /\ inflight' = fl
    /\ lastCall' = call
    /\ UNCHANGED <<mapVars, saveVars, aiVars, engineVars>>

Commit(w, fl, call) == CommitWith(w, fl, call, given, shared)

\* the player and enemy objects the caller passes to startCombat: a
\* character as createCharacter returns it and an enemy as generateEnemy /
\* generateBoss returns it (the fields combat writes on its own objects)
GivenEntities(a) == [player |-> NewPlayer(a), enemy |-> NewEnemy(a)]

\* variant: a cloneEntity that returns its argument
CloneShares_Alias == {"player", "enemy"}

\* cloneEntity(entity) is JSON.parse(JSON.stringify(entity)), a new object
\* graph: the objects its results share with the objects passed in
CloneShares == {}

\* initializeBoss
InitializeBoss(a, e) ==
    [e EXCEPT !.hasBossData = a.etype \in DOMAIN bossPhases,
              !.statusResistance100 = 50]

\* variant: the enemy also moves first on equal speed
FirstTurn_Tie(a) ==
    IF Enemy(a).speed >= Character(a).speed THEN "enemy" ELSE "player"

\* the speed comparison of startCombat
FirstTurn(a) ==
    IF Enemy(a).speed > Character(a).speed THEN "enemy" ELSE "player"

\* startCombat(player, enemy, options), up to the return of the promise
StartCombatOn(a) ==
    /\ ~isActive
    /\ LET opts == a.options @@ combatOptions
           first == FirstTurn(a)
           w == [World EXCEPT
                   !.isActive = TRUE, !.currentTurn = first, !.turnCounter = 1,
                   !.attached = TRUE,
                   !.player = NewPlayer(a),
                   !.enemy = IF opts.isBoss THEN InitializeBoss(a, NewEnemy(a))
                             ELSE NewEnemy(a),
                   !.timers = IF first = "enemy" THEN @ + 1 ELSE @,
                   !.combatResolve = TRUE,
                   !.phaseLog = <<>>]
       IN  /\ args' = a
           /\ combatOptions' = opts
           /\ CommitWith(UpdateCombatUI(w), inflight, Call("startCombat", 0, "promise"),
                         GivenEntities(a), CloneShares)

\* the combats a Combat runs one after the other
MaxCombats == 2

\* the first startCombat call on a Combat
StartCombat(a) == args = NoArgs /\ StartCombatOn(a)

\* a later startCombat call on the same Combat, made when the combat
\* before it has ended and nothing of it is pending
StartCombatAgain(a) ==
    /\ args # NoArgs /\ ~attached
    /\ inflight = <<>> /\ timers = 0
    /\ Len(results) < MaxCombats
    /\ StartCombatOn(a)

\* canUseSkill(skill), for the skill at index i
CanUseSkill(a, p, i) ==
    /\ ~JsLt(p.mana, PlayerSkill(a, i).manaCost)
    /\ ~(p.cooldowns[i + 1] > 0)
    /\ ~(Has(p.statusEffects, "stunned") \/ Has(p.statusEffects, "frozen"))

\* variant: useSkill without the test of currentTurn
UseSkillAccepts_AnyTurn(i) ==
    /\ isActive
    /\ HasSkill(args, i) /\ CanUseSkill(args, player, i)

\* the two guards of useSkill(i): the call goes on to executeSkill
UseSkillAccepts(i) ==
    /\ isActive /\ currentTurn = "player"
    /\ HasSkill(args, i) /\ CanUseSkill(args, player, i)

\* useSkill(i) up to its first suspension: rejected (returns false), or
\* executeSkill has run and the call awaits its result
UseSkill(n, i) ==
    /\ turnCounter <= n
    /\ Len(inflight) < args.burst
    /\ UNCHANGED <<args, combatOptions>>
    /\ IF ~UseSkillAccepts(i)
       THEN Commit(World, inflight, Call("useSkill", i, "false"))
       ELSE /\ Len(inflight) + timers < MaxPending + args.burst - 1
            /\ \E res \in {ExecuteSkill(args, World, "player", PlayerSkill(args, i), d) :
                               d \in SkillDraws(PlayerSkill(args, i), TRUE)} :
                 Commit(World, Append(inflight, [idx |-> i, res |-> res]),
                        Call("useSkill", i, "pending"))

\* the useSkill calls of the first MaxTurn turns
UseSkillCall(i) == UseSkill(MaxTurn, i)

\* variant: the turn is ended before the result is applied
UseSkillTail_EndFirst(a, w, h, rs) ==
    Try(EndPlayerTurn(a, w), LAMBDA w1 : ApplySkillResult(a, w1, h.res, h.idx, rs))

\* the handler that ends in w has resolved the combat as a victory, the one
\* outcome that calls calculateCombatRewards and consumes its draws
Won(w) == Len(w.results) > Len(results) /\ Last(w.results).victory

\* the worlds a handler that ended in w can end in, over the draws of
\* calculateCombatRewards: the rewards go into the result of a victory and
\* nowhere else
Rewarded(a, w) ==
    IF Won(w)
    THEN {[w EXCEPT !.rw = rw,
                    !.results[Len(w.results)].rewards = <<CalculateCombatRewards(a, rw)>>] :
            rw \in RewardDraws(a)}
    ELSE {w}

\* useSkill after the await, inside the try block: applySkillResult, then
\* endPlayerTurn
UseSkillTail(a, w, h, rs) ==
    Try(ApplySkillResult(a, w, h.res, h.idx, rs), LAMBDA w1 : EndPlayerTurn(a, w1))

\* the resistance draws of the effects a result carries (fixed when the
\* target resists nothing)
ResistDraws(w, res) ==
    [1..Len(res.statusEffects) ->
        IF Resistance100(w, Other(res.caster)) > 0 THEN Draws ELSE {0}]

\* useSkill resumed after await executeSkill: applySkillResult,
\* endPlayerTurn, return true; an exception is caught and false returned
UseSkillResume ==
    /\ inflight # <<>>
    /\ UNCHANGED <<args, combatOptions>>
    /\ \E w0 \in {UseSkillTail(args, World, Head(inflight), rs) :
                    rs \in ResistDraws(World, Head(inflight).res)} :
       \E w \in Rewarded(args, w0) :
         Commit(Caught(w), Tail(inflight),
                Call("useSkill", Head(inflight).idx, IF w.exc THEN "false" ELSE "true"))

\* variant: a flee roll that also succeeds at 0.70
FleeSucceeds_Le(r) == r <= 70

\* the flee roll: Math.random() < 0.7
FleeSucceeds(r) == r < 70

\* attemptFlee(), r the draw
AttemptFlee(n, r) ==
    /\ turnCounter <= n
    /\ Len(inflight) < args.burst
    /\ UNCHANGED <<args, combatOptions>>
    /\ IF ~combatOptions.allowFlee
       THEN Commit(World, inflight, Call("attemptFlee", 0, "false"))
       ELSE IF FleeSucceeds(r)
            THEN Commit(EndCombat(args, World, FALSE, "Player fled"), inflight,
                        Call("attemptFlee", 0, "true"))
            ELSE /\ Len(inflight) + timers < MaxPending + args.burst - 1
                 /\ \E w \in {EndPlayerTurn(args, World)} :
                      Commit(Caught(w), inflight,
                             Call("attemptFlee", 0, IF w.exc THEN "throws" ELSE "false"))

\* the attemptFlee calls of the first MaxTurn turns
AttemptFleeDraw(r) == AttemptFlee(MaxTurn, r)

\* a setTimeout callback runs executeEnemyTurn (the callback of
\* endPlayerTurn tests isActive first, as executeEnemyTurn does itself)
EnemyTurnTimer ==
    /\ timers > 0
    /\ inflight = <<>>
    /\ UNCHANGED <<args, combatOptions>>
    /\ LET w0 == [World EXCEPT !.timers = @ - 1] IN
       IF ~isActive \/ currentTurn # "enemy"
       THEN Commit(w0, inflight, Call("executeEnemyTurn", 0, "void"))
       ELSE /\ turnCounter <= MaxTurn
            /\ \E w1 \in EnemyTurnOutcomes(args, w0) :
               \E w \in Rewarded(args, w1) :
                 Commit(Caught(w), inflight,
                        Call("executeEnemyTurn", 0,
                             IF w.exc THEN "rejected" ELSE "void"))

(* ---------------------------- map generation: actions ------------------ *)
\* generateRun up to the forEach over the selected regions: rc the draw of
\* randomInt(2, 4), ds the draws of selectRegions.  The twin is a generator
\* constructed for this call, which is fed the same draws.
GenerateRun(rc, ds) ==
    /\ run.pc = "idle"
    /\ runs < MaxRuns
    /\ run' = [NoRun EXCEPT !.pc = "region",
                            !.regionCount = RandomInt(2, 4, rc),
                            !.chosen = SelectRegions(RandomInt(2, 4, rc), ds),
                            !.selected = SelectRegions(RandomInt(2, 4, rc), ds)]
    /\ twin' = NewNodeTypes
    /\ UNCHANGED <<nodeTypes, runs>>
    /\ UNCHANGED <<combatVars, saveVars, aiVars, engineVars>>

\* generateRun, up to the forEach, of a generator whose region catalog has
\* the keys keys
GenerateRunOver(keys, rc, ds) ==
    /\ run.pc = "idle"
    /\ runs < MaxRuns
    /\ run' = [NoRun EXCEPT !.pc = "region",
                            !.keys = keys,
                            !.regionCount = RandomInt(2, 4, rc),
                            !.chosen = SelectRegionsFrom(keys, RandomInt(2, 4, rc), ds),
                            !.selected = SelectRegionsFrom(keys, RandomInt(2, 4, rc), ds)]
    /\ twin' = NewNodeTypes
    /\ UNCHANGED <<nodeTypes, runs>>
    /\ UNCHANGED <<combatVars, saveVars, aiVars, engineVars>>

\* generateRegion(regionKey, regionIndex, totalRegions) up to its loop, rl
\* the draw of randomInt(4, 7)
GenerateRegion(rl) ==
    /\ run.pc = "region"
    /\ run.selected # <<>>
    /\ run' = [run EXCEPT
                 !.pc = "node",
                 !.i = 0,
                 !.regionLength = IF run.regionIndex = run.regionCount - 1
                                  THEN RandomInt(4, 7, rl) + 1
                                  ELSE RandomInt(4, 7, rl)]
    /\ UNCHANGED <<nodeTypes, twin, runs>>
    /\ UNCHANGED <<combatVars, saveVars, aiVars, engineVars>>

\* the node the loop has just pushed: its type in this execution and in the
\* twin's; after the last node the region is pushed to runData.regions
Pushed(type, twinType) ==
    [run EXCEPT
       !.lastType = type, !.twinType = twinType,
       !.nodes = @ + 1,
       !.bossNodes = IF type = "boss" THEN @ + 1 ELSE @,
       !.i = @ + 1,
       !.pc = IF run.i + 1 = run.regionLength THEN "region" ELSE "node",
       !.regions = IF run.i + 1 = run.regionLength THEN @ + 1 ELSE @,
       !.regionIndex = IF run.i + 1 = run.regionLength THEN @ + 1 ELSE @,
       !.selected = IF run.i + 1 = run.regionLength THEN Tail(@) ELSE @]

\* one iteration of the loop of generateRegion: generateBossNode or
\* generateRegularNode, r the draw of weightedRandomChoice
GenerateNode(r) ==
    /\ run.pc = "node"
    /\ IF IsBossNode(run.regionIndex, run.regionCount, run.i, run.regionLength)
       THEN /\ run' = Pushed("boss", "boss")
            /\ UNCHANGED <<nodeTypes, twin>>
       ELSE /\ run' = Pushed(SelectNodeType(nodeTypes, run.i, run.regionLength, r),
                             SelectNodeType(twin, run.i, run.regionLength, r))
            /\ nodeTypes' = AdjustWeights(nodeTypes, run.i, run.regionLength)
            /\ twin' = AdjustWeights(twin, run.i, run.regionLength)
    /\ UNCHANGED runs
    /\ UNCHANGED <<combatVars, saveVars, aiVars, engineVars>>

\* generateRun returns runData
GenerateRunReturn ==
    /\ run.pc = "region"
    /\ run.selected = <<>>
    /\ run' = [run EXCEPT !.pc = "idle"]
    /\ runs' = runs + 1
    /\ UNCHANGED <<nodeTypes, twin>>
    /\ UNCHANGED <<combatVars, saveVars, aiVars, engineVars>>

(* ---------------------------- enemy AI: actions ------------------------ *)
\* a startCombat call with the enemy generateEnemy / generateBoss makes of
\* the type t
AiArgs(t) ==
    Args("warrior", "order", {}, t \in DOMAIN bossTemplates, t, 100,
         IF t \in DOMAIN bossTemplates THEN BossOption ELSE NoOptions, 1, {0})

\* the combat of AiArgs(t) with the enemy brought to hp and, for a boss,
\* holding the phase abilities ab
AiWorld(t, hp, ab) ==
    [World EXCEPT
       !.isActive = TRUE, !.attached = TRUE, !.currentTurn = "enemy",
       !.player = NewPlayer(AiArgs(t)),
       !.enemy = [(IF AiArgs(t).boss THEN InitializeBoss(AiArgs(t), NewEnemy(AiArgs(t)))
                   ELSE NewEnemy(AiArgs(t)))
                  EXCEPT !.hp = hp, !.phaseAbilities = ab]]

\* chooseEnemyAction() for an enemy of type t at pct percent of its hp
ChooseEnemyActionCall(t, pct, ab, pa, pt) ==
    /\ ai' = [op |-> "chooseEnemyAction", type |-> t,
              hp |-> Floor(Enemy(AiArgs(t)).maxHp * pct, 100),
              maxHp |-> Enemy(AiArgs(t)).maxHp,
              pt |-> pt,
              phase |-> /\ AiArgs(t).boss
                        /\ BossPhaseAction(AiWorld(t, 0, ab), pa, 0) # <<>>,
              pattern |-> AiPattern(AiArgs(t),
                                    AiWorld(t, Floor(Enemy(AiArgs(t)).maxHp * pct, 100), ab)),
              action |-> ChooseEnemyAction(AiArgs(t),
                                           AiWorld(t, Floor(Enemy(AiArgs(t)).maxHp * pct, 100),
                                                   ab),
                                           pa, 0, pt)]
    /\ UNCHANGED <<combatVars, mapVars, saveVars, engineVars>>

(* ---------------------------- level-up: actions ------------------------ *)
\* createCharacter(cls, ...): the fields addExperienceToCharacter and
\* levelUpCharacter read or write for the claim at hand (strength, agility
\* and the stats derived from them are left out)
NewHero(cls) ==
    [pc |-> "idle", cls |-> cls, level |-> 1, experience |-> 0,
     experienceToNext |-> 100,
     vitality |-> classTemplates[cls].vitality,
     intelligence |-> classTemplates[cls].intelligence,
     maxHealth |-> classTemplates[cls].baseHealth + classTemplates[cls].vitality * 5,
     maxMana |-> classTemplates[cls].baseMana + classTemplates[cls].intelligence * 3,
     hp |-> classTemplates[cls].baseHealth + classTemplates[cls].vitality * 5,
     mana |-> classTemplates[cls].baseMana + classTemplates[cls].intelligence * 3,
     grants |-> 0]

\* Math.floor(growthRates[stat] + Math.random()), r the draw
StatIncrease(rate10, r) == Floor(rate10 * 10 + r, 100)

\* variant: a level-up that leaves experienceToNext as it is
LevelUp_FlatThreshold(h, rv, ri) ==
    With([h EXCEPT !.level = @ + 1,
                   !.experience = @ - h.experienceToNext,
                   !.vitality = @ + StatIncrease(levelTemplates[h.cls].vitality10, rv),
                   !.intelligence = @ + StatIncrease(levelTemplates[h.cls].intelligence10, ri)],
         LAMBDA h1 :
           [h1 EXCEPT
              !.maxHealth = @ + levelTemplates[h.cls].healthPerLevel + Floor(h1.vitality * 5, 10),
              !.hp = @ + levelTemplates[h.cls].healthPerLevel + Floor(h1.vitality * 5, 10),
              !.maxMana = @ + levelTemplates[h.cls].manaPerLevel + Floor(h1.intelligence * 3, 10),
              !.mana = @ + levelTemplates[h.cls].manaPerLevel + Floor(h1.intelligence * 3, 10)])

\* levelUpCharacter(character), rv and ri the draws of the vitality and
\* intelligence increases: the character it leaves
LevelUp(h, rv, ri) ==
    With([h EXCEPT !.level = @ + 1,
                   !.experience = @ - h.experienceToNext,
                   !.experienceToNext = Floor(@ * 12, 10),
                   !.vitality = @ + StatIncrease(levelTemplates[h.cls].vitality10, rv),
                   !.intelligence = @ + StatIncrease(levelTemplates[h.cls].intelligence10, ri)],
         LAMBDA h1 :
           [h1 EXCEPT
              !.maxHealth = @ + levelTemplates[h.cls].healthPerLevel + Floor(h1.vitality * 5, 10),
              !.hp = @ + levelTemplates[h.cls].healthPerLevel + Floor(h1.vitality * 5, 10),
              !.maxMana = @ + levelTemplates[h.cls].manaPerLevel + Floor(h1.intelligence * 3, 10),
              !.mana = @ + levelTemplates[h.cls].manaPerLevel + Floor(h1.intelligence * 3, 10)])

\* createCharacter(cls, faction)
CreateCharacter(cls) ==
    /\ hero.pc = "none"
    /\ hero' = NewHero(cls)
    /\ UNCHANGED <<combatVars, mapVars, saveVars, aiVars, game>>

\* addExperienceToCharacter(character, experience) up to its loop
AddExperienceToCharacter(experience) ==
    /\ hero.pc = "idle"
    /\ hero.grants < MaxGrants
    /\ hero' = [hero EXCEPT !.pc = "loop", !.experience = @ + experience,
                            !.grants = @ + 1]
    /\ UNCHANGED <<combatVars, mapVars, saveVars, aiVars, game>>

\* one iteration of the while loop: levelUpCharacter(character)
LevelUpCharacter(rv, ri) ==
    /\ hero.pc = "loop"
    /\ hero.experience >= hero.experienceToNext
    /\ hero' = LevelUp(hero, rv, ri)
    /\ UNCHANGED <<combatVars, mapVars, saveVars, aiVars, game>>

\* the loop test fails: addExperienceToCharacter returns
AddExperienceReturn ==
    /\ hero.pc = "loop"
    /\ ~(hero.experience >= hero.experienceToNext)
    /\ hero' = [hero EXCEPT !.pc = "idle"]
    /\ UNCHANGED <<combatVars, mapVars, saveVars, aiVars, game>>

(* ---------------------------- persistence: actions --------------------- *)
\* saveToLocalStorage(key, data), t the time
SaveToLocalStorage(key, data, t) ==
    localStorage' = [localStorage EXCEPT
                       ![key] = <<[data |-> Stringify(data), timestamp |-> t]>>]

\* loadFromLocalStorage(key): <<parsed.data>>, or <<>> for null
LoadFromLocalStorage(key) ==
    IF localStorage[key] = <<>> THEN <<>> ELSE <<Parse(localStorage[key][1].data)>>

\* saveMetaProgression(data), t the time
SaveMetaProgression(data, t) ==
    /\ SaveToLocalStorage("metaProgression", Spread(data, "lastPlayed", t), t)
    /\ saved' = [saved EXCEPT !.metaProgression = <<data>>]
    /\ UNCHANGED <<loaded, combatVars, mapVars, aiVars, engineVars>>

\* loadMetaProgression()
LoadMetaProgression ==
    /\ loaded' = [op |-> "loadMetaProgression", from |-> saved.metaProgression,
                  value |-> IF LoadFromLocalStorage("metaProgression") = <<>>
                            THEN <<defaultMetaProgression>>
                            ELSE LoadFromLocalStorage("metaProgression")]
    /\ UNCHANGED <<localStorage, saved, combatVars, mapVars, aiVars, engineVars>>

\* saveActiveRun(runData), t the time
SaveActiveRun(runData, t) ==
    /\ SaveToLocalStorage("activeRun", Spread(runData, "lastSaved", t), t)
    /\ saved' = [saved EXCEPT !.activeRun = <<runData>>]
    /\ UNCHANGED <<loaded, combatVars, mapVars, aiVars, engineVars>>

\* saveActiveRun(null): clearActiveRun
ClearActiveRun ==
    /\ localStorage' = [localStorage EXCEPT !.activeRun = <<>>]
    /\ saved' = [saved EXCEPT !.activeRun = <<>>]
    /\ UNCHANGED <<loaded, combatVars, mapVars, aiVars, engineVars>>

\* loadActiveRun()
LoadActiveRun ==
    /\ loaded' = [op |-> "loadActiveRun", from |-> saved.activeRun,
                  value |-> LoadFromLocalStorage("activeRun")]
    /\ UNCHANGED <<localStorage, saved, combatVars, mapVars, aiVars, engineVars>>

\* a call of cloneEntity(entity)
CloneEntityCall(entity) ==
    /\ loaded' = [op |-> "cloneEntity", from |-> <<entity>>,
                  value |-> <<CloneEntity(entity)>>]
    /\ UNCHANGED <<localStorage, saved, combatVars, mapVars, aiVars, engineVars>>

Next ==
    \/ \E a \in Scenarios : StartCombat(a)
    \/ \E i \in args.choices : UseSkillCall(i)
    \/ UseSkillResume
    \/ \E r \in Draws : AttemptFleeDraw(r)
    \/ EnemyTurnTimer

Spec == Init /\ [][Next]_vars

NextMap ==
    \/ \E rc \in CountDraws, ds \in [1..3 -> RegionDraws] : GenerateRun(rc, ds)
    \/ \E rl \in LengthDraws : GenerateRegion(rl)
    \/ \E r \in NodeDraws : GenerateNode(r)
    \/ GenerateRunReturn

SpecMap == Init /\ [][NextMap]_vars

NextCatalog ==
    \/ \E keys \in Catalogs, rc \in CountDraws, ds \in [1..3 -> RegionDraws] :
         GenerateRunOver(keys, rc, ds)
    \/ \E rl \in LengthDraws : GenerateRegion(rl)
    \/ \E r \in NodeDraws : GenerateNode(r)
    \/ GenerateRunReturn

SpecCatalog == Init /\ [][NextCatalog]_vars

NextSave ==
    \/ \E data \in MetaProgressions, t \in SaveTimes : SaveMetaProgression(data, t)
    \/ LoadMetaProgression
    \/ \E runData \in ActiveRuns, t \in SaveTimes : SaveActiveRun(runData, t)
    \/ ClearActiveRun
    \/ LoadActiveRun
    \/ \E entity \in Entities : CloneEntityCall(entity)

SpecSave == Init /\ [][NextSave]_vars

NextAI ==
    \E t \in AiTypes, pct \in HpLevels, pa \in VarDraws, pt \in AiDraws :
      \E ab \in (IF t \in DOMAIN bossTemplates THEN {<<>>, <<"nature_heal">>} ELSE {<<>>}) :
        ChooseEnemyActionCall(t, pct, ab, pa, pt)

SpecAI == Init /\ [][NextAI]_vars

NextLevel ==
    \/ \E cls \in DOMAIN classTemplates : CreateCharacter(cls)
    \/ \E experience \in ExpGrants : AddExperienceToCharacter(experience)
    \/ \E rv \in VarDraws, ri \in VarDraws : LevelUpCharacter(rv, ri)
    \/ AddExperienceReturn

\* the loop of addExperienceToCharacter is synchronous code: once entered it
\* runs on until its test fails
SpecLevel ==
    /\ Init /\ [][NextLevel]_vars
    /\ WF_vars(\E rv \in VarDraws, ri \in VarDraws : LevelUpCharacter(rv, ri))
    /\ WF_vars(AddExperienceReturn)

\* a combat started with isBoss: true, and the combats started after it
\* without options
EarlierScenarios == {a \in Scenarios : a.options = BossOption}
LaterScenarios == {a \in Scenarios : a.options = NoOptions}

NextAgain ==
    \/ \E a \in EarlierScenarios : StartCombat(a)
    \/ \E i \in args.choices : UseSkillCall(i)
    \/ UseSkillResume
    \/ \E r \in Draws : AttemptFleeDraw(r)
    \/ EnemyTurnTimer
    \/ \E a \in LaterScenarios : StartCombatAgain(a)

SpecAgain == Init /\ [][NextAgain]_vars

\* combats against an enemy of the defensive AI pattern
DefensiveScenarios ==
    {Args("warrior", "order", {}, FALSE, "frost_giant", 100, NoOptions, 1, {0, 1}),
     Args("mage", "nature", {}, FALSE, "frost_giant", 120, NoOptions, 1, {0, 1})}

NextDefensive ==
    \/ \E a \in DefensiveScenarios : StartCombat(a)
    \/ \E i \in args.choices : UseSkillCall(i)
    \/ UseSkillResume
    \/ \E r \in Draws : AttemptFleeDraw(r)
    \/ EnemyTurnTimer

SpecDefensive == Init /\ [][NextDefensive]_vars

\* the boss combats explored: generateBoss at the difficulty of the run
BossScenarios ==
    {Args("mage", "nature", {}, TRUE, "forest_guardian", 150, BossOption, 1, {1}),
     Args("warrior", "order", {}, TRUE, "ice_queen", 100, BossOption, 1, {0}),
     Args("rogue", "shadow", {}, TRUE, "sand_dragon", 100, BossOption, 1, {0})}

\* the damage of one event on the boss
BossHits == {25, 60, 130}

\* one damage event on the boss of a running combat: dealDamage(this.enemy,
\* damage), as applySkillResult and processStatusEffects call it
DealDamageCall(damage) ==
    /\ isActive /\ attached
    /\ UNCHANGED <<args, combatOptions>>
    /\ \E w \in Rewarded(args, DealDamage(args, World, "enemy", damage)) :
         Commit(w, inflight, Call("dealDamage", damage, "done"))

NextBoss ==
    \/ \E a \in BossScenarios : StartCombat(a)
    \/ \E damage \in BossHits : DealDamageCall(damage)

SpecBoss == Init /\ [][NextBoss]_vars

\* a boss combat started with the option allowFlee: false
BossNoFleeOption == [isBoss |-> TRUE, allowFlee |-> FALSE]

NoFleeScenarios ==
    {Args("mage", "nature", {}, TRUE, "forest_guardian", 150, BossNoFleeOption, 1, {0, 1})}

\* the turns of a combat without flight that are followed
NoFleeTurns == MaxTurn + 1

NextNoFlee ==
    \/ \E a \in NoFleeScenarios : StartCombat(a)
    \/ \E i \in args.choices : UseSkill(NoFleeTurns, i)
    \/ UseSkillResume
    \/ \E r \in Draws : AttemptFlee(NoFleeTurns, r)
    \/ EnemyTurnTimer

SpecNoFlee == Init /\ [][NextNoFlee]_vars

(* ---------------------------- run controller --------------------------- *)
\* the node types of the run maps explored, in order: the last node is the
\* boss node
RunMaps ==
    {<<"combat", "boss">>, <<"rest", "combat", "boss">>, <<"event", "combat", "combat", "boss">>}

\* the suspended calls followed at a time
MaxWaiting == 3

\* a call suspended at an await: engine.startCombat and startBossCombat at
\* await this.combat.startCombat (live: its promise is the one
\* combat.combatResolve resolves), endRun at its two awaits
Wait(op, pc, victory, live) == [op |-> op, pc |-> pc, victory |-> victory, live |-> live]

Returned(op, victory, ret) == [op |-> op, victory |-> victory, ret |-> ret]

RemoveAt(q, k) == [i \in 1..(Len(q) - 1) |-> IF i < k THEN q[i] ELSE q[i + 1]]

\* applyRunRewards(rewards, victory), for a run that is set
ApplyRunRewards(g, victory) ==
    [g EXCEPT !.buildingExp = @ + (IF victory THEN 10 ELSE 5),
              !.reputation = @ + (IF victory THEN 25 ELSE 10),
              !.applied = @ + 1]

\* updateRunStatistics(victory)
UpdateRunStatistics(g, victory) ==
    IF victory THEN [g EXCEPT !.totalVictories = @ + 1] ELSE g

\* endRun(victory, rewards) up to await saveMetaProgression
EndRun(g, victory) ==
    IF ~g.isInRun \/ ~g.activeRun
    THEN [g EXCEPT !.last = Returned("endRun", victory, "no run")]
    ELSE [UpdateRunStatistics(ApplyRunRewards(g, victory), victory) EXCEPT
            !.waiting = Append(@, Wait("endRun", "save", victory, FALSE)),
            !.last = Returned("endRun", victory, "pending")]

\* combat.startCombat replaces combatResolve: the promises of the earlier
\* calls are never resolved
Orphaned(q) == [i \in DOMAIN q |-> [q[i] EXCEPT !.live = FALSE]]

\* handleNodeEncounter(node), for the node the run has moved to
HandleNodeEncounter(g, type) ==
    IF type \in {"combat", "boss"}
    THEN [g EXCEPT
            !.combat = "running", !.combatNode = g.currentNodeIndex,
            !.waiting = Append(Orphaned(@),
                               Wait(IF type = "boss" THEN "startBossCombat" ELSE "startCombat",
                                    "combat", FALSE, TRUE)),
            !.last = Returned("moveToNextNode", FALSE, "pending")]
    ELSE [g EXCEPT !.last = Returned("moveToNextNode", FALSE, "true")]

\* startNewRun(className, factionName), nodes the types of the map's nodes
StartNewRun(nodes) ==
    /\ ~game.isInRun /\ ~game.activeRun
    /\ game.combat # "running"
    /\ \A k \in DOMAIN game.waiting : game.waiting[k].op # "endRun"
    /\ game.totalRuns < MaxRuns
    /\ game' = [game EXCEPT !.isInRun = TRUE, !.activeRun = TRUE,
                            !.currentNodeIndex = 0, !.nodes = nodes,
                            !.totalRuns = @ + 1, !.applied = 0,
                            !.combat = "none", !.combatNode = 0, !.waiting = <<>>,
                            !.last = Returned("startNewRun", FALSE, "void")]
    /\ UNCHANGED <<combatVars, mapVars, saveVars, aiVars, hero>>

\* moveToNextNode(), as handleNodeClick and the timers of the resource and
\* rest nodes call it
MoveToNextNode ==
    /\ Len(game.waiting) < MaxWaiting
    /\ game' = IF ~game.isInRun \/ ~game.activeRun
               THEN [game EXCEPT !.last = Returned("moveToNextNode", FALSE, "false")]
               ELSE IF game.currentNodeIndex >= Len(game.nodes) - 1
               THEN EndRun(game, TRUE)
               ELSE HandleNodeEncounter([game EXCEPT !.currentNodeIndex = @ + 1],
                                        game.nodes[game.currentNodeIndex + 2])
    /\ UNCHANGED <<combatVars, mapVars, saveVars, aiVars, hero>>

\* the combat resolves its promise and the call awaiting it goes on:
\* engine.startCombat with handleCombatVictory (the character has no
\* addExperience method) or handleCombatDefeat, startBossCombat with
\* calculateBossRewards and endRun(true, ..) or handleCombatDefeat; each
\* reads this.activeRun
CombatEnds(victory) ==
    /\ game.combat = "running"
    /\ \E k \in DOMAIN game.waiting :
         /\ game.waiting[k].live
         /\ LET w == game.waiting[k]
                g == [game EXCEPT !.combat = IF victory THEN "victory" ELSE "defeat",
                                  !.waiting = RemoveAt(@, k)]
            IN  game' = IF ~g.activeRun \/ (victory /\ w.op = "startCombat")
                        THEN [g EXCEPT !.last = Returned(w.op, victory, "throws")]
                        ELSE EndRun(g, victory /\ w.op = "startBossCombat")
    /\ UNCHANGED <<combatVars, mapVars, saveVars, aiVars, hero>>

\* the store answers: endRun goes on after await saveMetaProgression, or
\* after await clearActiveRun to the end of its try block
EndRunResume(k) ==
    /\ k \in DOMAIN game.waiting
    /\ game.waiting[k].op = "endRun"
    /\ game' = IF game.waiting[k].pc = "save"
               THEN [game EXCEPT !.waiting[k].pc = "clear",
                                 !.last = Returned("endRun", game.waiting[k].victory, "pending")]
               ELSE [game EXCEPT !.waiting = RemoveAt(@, k),
                                 !.activeRun = FALSE, !.isInRun = FALSE,
                                 !.last = Returned("endRun", game.waiting[k].victory, "void")]
    /\ UNCHANGED <<combatVars, mapVars, saveVars, aiVars, hero>>

NextRun ==
    \/ \E nodes \in RunMaps : StartNewRun(nodes)
    \/ MoveToNextNode
    \/ \E victory \in BOOLEAN : CombatEnds(victory)
    \/ \E k \in 1..MaxWaiting : EndRunResume(k)

SpecRun == Init /\ [][NextRun]_vars

(* ---------------------------- properties ------------------------------- *)
\* the fields of the combat session (the entity objects apart)
session == <<isActive, currentTurn, turnCounter, attached, combatResolve, results>>

InRange(x, lo, hi) == x # NaN /\ lo <= x /\ x <= hi

\* C1: in every state of a combat, for a character of createCharacter and
\* an enemy of generateEnemy / generateBoss, the player's hp lies in
\* [0, maxHealth] and mana in [0, maxMana], and the enemy's hp in [0, maxHp]
\* (the enemy objects carry no mana and no maximum of it)
C1_HpAndManaInRange ==
    attached =>
      /\ InRange(player.hp, 0, Character(args).maxHealth)
      /\ InRange(player.mana, 0, Character(args).maxMana)
      /\ InRange(enemy.hp, 0, Enemy(args).maxHp)

\* C2: a useSkill call with an index that names no skill, or made while
\* currentTurn is enemy, returns false and leaves the player, the enemy,
\* currentTurn, turnCounter and the cooldowns as they were, every time
C2_RejectedUseSkillChangesNothing ==
    [][\A i \in SkillChoices :
         (/\ args = NoArgs \/ ~HasSkill(args, i) \/ currentTurn = "enemy"
          /\ lastCall'.op = "useSkill" /\ lastCall'.arg = i
          /\ UseSkillCall(i))
           => /\ lastCall'.ret = "false"
              /\ UNCHANGED <<player, enemy, session, timers, inflight, phaseLog>>]_vars

C2_Witness ==
    /\ isActive /\ currentTurn = "enemy"
    /\ lastCall = Call("useSkill", 0, "false")
    /\ HasSkill(args, 0) /\ CanUseSkill(args, player, 0)

\* the conditions under which useSkill(i) may resolve a skill
Usable(i) ==
    /\ HasSkill(args, i)
    /\ i \notin args.locked
    /\ ~Has(player.statusEffects, "stunned") /\ ~Has(player.statusEffects, "frozen")
    /\ player.mana # NaN /\ player.mana >= PlayerSkill(args, i).manaCost
    /\ player.cooldowns[i + 1] = 0

\* C3: on the player's turn useSkill resolves a skill only if the skill
\* exists, is unlocked, the player is neither stunned nor frozen, has the
\* mana and the cooldown is 0; otherwise it returns false and changes nothing
C3_ResolvesOnlyUsableSkills ==
    [][\A i \in SkillChoices :
         (/\ isActive /\ currentTurn = "player" /\ ~Usable(i)
          /\ lastCall'.op = "useSkill" /\ lastCall'.arg = i
          /\ UseSkillCall(i))
           => /\ lastCall'.ret = "false"
              /\ UNCHANGED <<player, enemy, session, timers, inflight, phaseLog>>]_vars

\* C4: once the combat promise is resolved, no step (useSkill, attemptFlee,
\* a pending timer, a continuation) changes the session or acts for the
\* enemy, and the promise is resolved at most once
C4_ResolvedIsTerminal ==
    [][/\ Len(results') <= 1
       /\ results # <<>> =>
            /\ UNCHANGED session
            /\ ~isActive /\ ~attached /\ ~combatResolve
            /\ lastCall'.op = "executeEnemyTurn" =>
                 /\ timers' = timers - 1
                 /\ player' \in {player, NoPlayer}
                 /\ enemy' \in {enemy, NoEnemy}]_vars

C4_Witness ==
    /\ Len(results) = 1 /\ results[1].reason = "Enemy defeated"
    /\ lastCall = Call("attemptFlee", 0, "true")

\* C5: a step that brings an entity's hp to 0 resolves the combat, with
\* victory exactly when the enemy died, and runs no turn processing after
\* the death (no status tick, no cooldown decay, no enemy-turn timer, no
\* second endCombat)
C5_DeathEndsTheAction ==
    death.who # "none" =>
      /\ ~isActive
      /\ Len(results) = 1 /\ results[1].victory = (death.who = "enemy")
      /\ death.late = {}

\* C6: right after startCombat the turn is the enemy's exactly when
\* enemy.speed > player.speed (and only then a timer for its turn is set)
C6_FasterEnemyMovesFirst ==
    lastCall.op = "startCombat" =>
      /\ currentTurn = "enemy" <=> Enemy(args).speed > Character(args).speed
      /\ currentTurn = "player" <=> Enemy(args).speed <= Character(args).speed
      /\ timers = IF currentTurn = "enemy" THEN 1 ELSE 0

C6_Witness ==
    /\ lastCall.op = "startCombat" /\ currentTurn = "enemy"
    /\ Enemy(args).speed = Character(args).speed + 1

StrictlyAscending(q) == \A i, j \in DOMAIN q : i < j => q[i] < q[j]

\* C7: the triggered phase indices of a boss only grow, no phase is
\* announced twice, and at most as many transitions happen as the boss has
\* phases
C7_PhasesFireOnce ==
    [][/\ StrictlyAscending(phaseLog')
       /\ enemy' # NoEnemy =>
            /\ enemy'.triggeredPhases = {phaseLog'[i] : i \in DOMAIN phaseLog'}
            /\ enemy'.hasBossData => Len(phaseLog') <= Len(bossPhases[args'.etype])
       /\ (enemy # NoEnemy /\ enemy' # NoEnemy) =>
            enemy.triggeredPhases \subseteq enemy'.triggeredPhases]_vars

C7_Witness == enemy # NoEnemy /\ Len(phaseLog) >= 2 /\ enemy.triggeredPhases = {0, 1}

\* the thresholds (* 100) of the boss's phases that a hit's resulting hp meets
Met(h) ==
    {i \in 0..(Len(bossPhases[args.etype]) - 1) :
       h.after * 100 <= bossPhases[args.etype][i + 1].hpThreshold100 * Enemy(args).maxHp}

\* C8: one damage application to a boss fires at most one phase
C8_OnePhasePerHit == \A k \in DOMAIN hits : Len(hits[k].fired) <= 1

C8_Witness ==
    \E k \in DOMAIN hits :
      /\ Cardinality(Met(hits[k]) \ hits[k].triggered) >= 2
      /\ Len(hits[k].fired) = 1

\* a hit on a boss with thresholds 0.75, 0.5, 0.25 and no phase triggered
\* that takes the hp fraction from above 0.75 into (0.25, 0.5]
CrossesTwo(h) ==
    /\ Len(bossPhases[args.etype]) = 3
    /\ \A i \in 1..3 : bossPhases[args.etype][i].hpThreshold100 = 100 - 25 * i
    /\ h.triggered = {}
    /\ h.before * 100 > 75 * Enemy(args).maxHp
    /\ Met(h) = {0, 1}

\* C9 (as stated): such a hit fires exactly one phase, the 0.5 phase
C9_FiresTheHalfPhase ==
    \A k \in DOMAIN hits : CrossesTwo(hits[k]) => hits[k].fired = <<1>>

\* C9 (amended): such a hit fires exactly one phase, the 0.75 phase, the
\* first one of the scan
C9_FiresTheFirstPhase ==
    \A k \in DOMAIN hits : CrossesTwo(hits[k]) => hits[k].fired = <<0>>

C9_Witness ==
    \E k \in DOMAIN hits : CrossesTwo(hits[k]) /\ hits[k].fired = <<0>>

\* C10: with allowFlee, attemptFlee returns true exactly when its draw is
\* below 0.70; without it, the call returns false and changes nothing
C10_FleeBelowSeventy ==
    [][\A r \in Draws :
         (lastCall'.op = "attemptFlee" /\ AttemptFleeDraw(r)) =>
           IF combatOptions.allowFlee
           THEN lastCall'.ret = "true" <=> r < 70
           ELSE /\ lastCall'.ret = "false"
                /\ UNCHANGED <<player, enemy, session, timers, inflight, phaseLog>>]_vars

C10_Witness ==
    /\ lastCall = Call("attemptFlee", 0, "true")
    /\ Len(results) = 1 /\ results[1].reason = "Player fled"
    /\ death.who = "none"

\* skill cooldowns after one updateCooldowns
Decayed(cds) == [i \in DOMAIN cds |-> IF cds[i] > 0 THEN cds[i] - 1 ELSE 0]

\* status effects after one processStatusEffects: every duration one less,
\* the expired effects removed
Ticked(effs) ==
    SelectSeq([i \in DOMAIN effs |-> [effs[i] EXCEPT !.duration = @ - 1]],
              LAMBDA e : e.duration > 0)

\* C11: a failed flee on the player's turn returns false and ends the turn
\* as endPlayerTurn does: the player's status effects tick once, the
\* cooldowns decay by one, the turn goes to the enemy with one more timer for
\* its turn, and mana, the enemy and the turn counter stay as they were; the
\* timer that then fires runs the enemy's turn, which hands the turn back
\* with the counter one higher (or ends the combat)
C11_FailedFleeEndsTheTurn ==
    [][/\ \A r \in Draws :
            (/\ isActive /\ currentTurn = "player" /\ combatOptions.allowFlee
             /\ ~(r < 70)
             /\ lastCall'.op = "attemptFlee"
             /\ AttemptFleeDraw(r))
              => /\ lastCall'.ret = "false"
                 /\ player'.statusEffects = Ticked(player.statusEffects)
                 /\ player'.cooldowns = Decayed(player.cooldowns)
                 /\ player'.mana = player.mana
                 /\ enemy' = enemy
                 /\ turnCounter' = turnCounter
                 /\ isActive' /\ currentTurn' = "enemy"
                 /\ timers' = timers + 1
       /\ (/\ lastCall = Call("attemptFlee", 0, "false")
           /\ isActive /\ currentTurn = "enemy"
           /\ lastCall'.op = "executeEnemyTurn")
            => \/ ~isActive'
               \/ currentTurn' = "player" /\ turnCounter' = turnCounter + 1]_vars

C11_Witness ==
    /\ lastCall = Call("attemptFlee", 0, "false")
    /\ isActive /\ currentTurn = "enemy" /\ timers = 1 /\ turnCounter = 2
    /\ args.cls = "rogue"
    /\ player.mana = Character(args).maxMana - skillTemplates.poison_blade.manaCost
    /\ \A i \in DOMAIN player.cooldowns : player.cooldowns[i] = 0

\* C12: a flee that succeeds in an active combat resolves the promise with
\* victory false and the reason "Player fled" (a death of the player gives
\* "Player defeated"), and the result has no experience and no rewards;
\* no resolved result of a lost combat ever carries them
C12_FleeResolvesAsFled ==
    [][/\ (isActive /\ lastCall' = Call("attemptFlee", 0, "true"))
            => /\ Len(results') = Len(results) + 1
               /\ Last(results').victory = FALSE
               /\ Last(results').reason = "Player fled"
               /\ Last(results').experience = NaN
               /\ Last(results').rewards = <<>>
       /\ \A k \in DOMAIN results' :
            /\ ~results'[k].victory =>
                 /\ results'[k].experience = NaN /\ results'[k].rewards = <<>>
                 /\ results'[k].reason \in {"Player fled", "Player defeated"}
            /\ death'.who = "player" /\ k = Len(results') =>
                 results'[k].reason = "Player defeated"]_vars

C12_Witness ==
    /\ lastCall = Call("attemptFlee", 0, "true")
    /\ results = <<[victory |-> FALSE, reason |-> "Player fled", turnCount |-> 2,
                    experience |-> NaN, rewards |-> <<>>]>>
    /\ ~isActive /\ ~attached

\* C13: a useSkill call goes on to executeSkill only when no other call is
\* awaiting its result, so a call that resumes applies its skill on the
\* player's turn, and mana never goes below 0
C13_OneSkillInFlight ==
    [][/\ lastCall' = Call("useSkill", lastCall'.arg, "pending") => inflight = <<>>
       /\ (lastCall' = Call("useSkill", lastCall'.arg, "true") /\ inflight # <<>>)
            => /\ isActive /\ currentTurn = "player"
               /\ player'.mana >= 0]_vars

\* C14: attemptFlee called while the turn is the enemy's, or while no combat
\* is active, does not throw, resolves nothing and ticks nothing: the
\* session, the entities and the pending timers stay as they were
C14_FleeOnlyOnPlayerTurn ==
    [][(/\ ~isActive \/ currentTurn = "enemy"
        /\ lastCall'.op = "attemptFlee")
         => /\ lastCall'.ret # "throws"
            /\ results' = results
            /\ UNCHANGED <<player, enemy, session, timers>>]_vars

\* C15: a generateRun call draws a region count in 2..4 and returns a map
\* with exactly that many regions; the map's only node of type boss is its
\* last node, the last node of the last region, and no node before it is
\* typed boss, whatever the draws and whatever the weights have become
C15_OneBossAtTheEnd ==
    /\ run.pc # "idle" \/ runs > 0 =>
         /\ run.regionCount \in 2..4
         /\ run.regions <= run.regionCount
         /\ run.bossNodes = (IF run.lastType = "boss" THEN 1 ELSE 0)
         /\ run.lastType = "boss" =>
              /\ run.regions = run.regionCount
              /\ run.pc \in {"region", "idle"} /\ run.selected = <<>>
    /\ run.pc = "idle" /\ runs > 0 =>
         /\ run.regions = run.regionCount
         /\ run.bossNodes = 1
         /\ run.lastType = "boss"

C15_Witness ==
    /\ run.pc = "idle" /\ runs = 2
    /\ run.regionCount = 3 /\ run.regions = 3
    /\ run.nodes = 4 + 7 + 8
    /\ run.bossNodes = 1 /\ run.lastType = "boss"
    /\ nodeTypes # NewNodeTypes

\* C16: between generateRun calls the node-type weights are those of the
\* catalog the constructor built, and every node of a run has the type the
\* same draws give on a generator that has generated nothing before
C16_GenerateRunIsPure ==
    /\ run.pc = "idle" => nodeTypes = NewNodeTypes
    /\ run.lastType = run.twinType

\* C17: the player and enemy objects passed to startCombat keep every field
\* (hp, mana, cooldowns, status effects) they were passed with, through
\* every useSkill, enemy turn, status tick and flee of the combat
C17_CombatRunsOnCopies ==
    args # NoArgs => given = GivenEntities(args)

C17_Witness ==
    /\ isActive /\ attached
    /\ lastCall.op = "useSkill" /\ lastCall.ret = "true"
    /\ player.mana < given.player.mana
    /\ enemy.hp # NaN /\ enemy.hp < given.enemy.hp
    /\ \E i \in DOMAIN player.cooldowns : player.cooldowns[i] > given.player.cooldowns[i]

\* C18: in every state of a combat, calculateDamage gives a number >= 1 for
\* each of the player's skills that has a damage component and for the
\* enemy's attack, whatever the variance draw
C18_DamageAtLeastOne ==
    attached =>
      \A r \in VarDraws :
        /\ \A i \in 0..(Len(Character(args).skills) - 1) :
             JsGt(PlayerSkill(args, i).damage, 0) =>
               JsGt(CalculateDamage(args, World, "player", PlayerSkill(args, i), r), 0)
        /\ JsGt(EnemyBasicAttack(args).damage, 0) =>
             JsGt(CalculateDamage(args, World, "enemy", EnemyBasicAttack(args), r), 0)

\* C19: every step that changes the state of the session (active or not,
\* whose turn, the turn counter) passes ui.updateCombatInfo a snapshot, and
\* the last snapshot it passes shows the state the step ends in
C19_ObserverSeesEveryTransition ==
    [][<<isActive, currentTurn, turnCounter>>' # <<isActive, currentTurn, turnCounter>>
         => /\ snapshots' # <<>>
            /\ Last(snapshots') = [currentTurn |-> currentTurn',
                                   turnCounter |-> turnCounter']]_vars

\* C20: a useSkill call that passed validation and resumes after
\* executeSkill, applying its result, returns true, also when the result
\* kills the enemy and resolves the combat
C20_ResolvedSkillReturnsTrue ==
    [][(/\ inflight # <<>> /\ Len(inflight') < Len(inflight)
        /\ lastCall'.op = "useSkill")
         => lastCall'.ret = "true"]_vars

Timeless(v) == [f \in DOMAIN v \ TimestampFields |-> v[f]]

\* C22: what a load returns for an item that was saved, and what cloneEntity
\* returns, equals the value saved or cloned in every field but the
\* timestamps: the unlocked-class set, the run's flags and node list, the
\* entity's status-effect map
C22_RoundTrip ==
    (loaded.op # "none" /\ loaded.from # <<>>) =>
      /\ loaded.value # <<>>
      /\ Timeless(loaded.value[1]) = loaded.from[1]

\* C23: a result with victory carries experience = level * 10 +
\* floor(level * 10 * difficulty), plus level * 10 for a boss, difficulty the
\* one the enemy was generated with, and rewards with gold in
\* [5 + level, 15 + level]; for a boss the items hold the trophy and the
\* essences lie in [2, 5]
C23_VictoryRewards ==
    \A k \in DOMAIN results :
      results[k].victory =>
        /\ results[k].experience
             = Enemy(args).level * 10 + Floor(Enemy(args).level * 10 * args.d100, 100)
               + (IF Enemy(args).isBoss THEN Enemy(args).level * 10 ELSE 0)
        /\ results[k].rewards # <<>>
        /\ InRange(results[k].rewards[1].gold,
                   5 + Enemy(args).level, 15 + Enemy(args).level)
        /\ Enemy(args).isBoss =>
             /\ \E i \in DOMAIN results[k].rewards[1].items :
                  results[k].rewards[1].items[i] = "trophy"
             /\ InRange(results[k].rewards[1].essences, 2, 5)

\* the effect e is in the map effs with the duration it was applied with
Holds(effs, e) ==
    \E j \in DOMAIN effs : effs[j].type = e.type /\ effs[j].duration = e.duration

\* C24: a useSkill that returns true on the player's turn has applied the
\* result to the enemy, subtracted the mana cost, set the skill's cooldown to
\* its length and then ended the turn: the player's effects ticked once, the
\* player's cooldowns (the one just set included) decayed by one, and the turn
\* handed to the enemy with a timer for it; the enemy's effects keep the
\* duration they had or were applied with
C24_UseSkillOrder ==
    [][(/\ isActive /\ currentTurn = "player" /\ inflight # <<>>
        /\ lastCall' = Call("useSkill", Head(inflight).idx, "true")
        /\ Len(inflight') < Len(inflight))
         => /\ enemy'.hp = IF JsGt(Head(inflight).res.damage, 0) /\ Head(inflight).res.hit
                           THEN enemy.hp - Head(inflight).res.damage ELSE enemy.hp
            /\ player'.mana = player.mana - PlayerSkill(args, Head(inflight).idx).manaCost
            /\ player'.cooldowns
                 = Decayed([player.cooldowns EXCEPT
                              ![Head(inflight).idx + 1] =
                                 PlayerSkill(args, Head(inflight).idx).cooldown])
            /\ player'.statusEffects = Ticked(player.statusEffects)
            /\ isActive' /\ currentTurn' = "enemy" /\ turnCounter' = turnCounter
            /\ timers' = timers + 1
            /\ \A i \in DOMAIN enemy'.statusEffects :
                 \/ Holds(enemy.statusEffects, enemy'.statusEffects[i])
                 \/ Holds(Head(inflight).res.statusEffects, enemy'.statusEffects[i])
            /\ \A j \in DOMAIN enemy.statusEffects :
                 Has(enemy'.statusEffects, enemy.statusEffects[j].type)]_vars

C24_Witness ==
    /\ lastCall = Call("useSkill", 1, "true")
    /\ args.cls = "rogue" /\ isActive /\ currentTurn = "enemy" /\ turnCounter = 1
    /\ player.mana = Character(args).maxMana - skillTemplates.poison_blade.manaCost
    /\ player.cooldowns[2] = skillTemplates.poison_blade.cooldown - 1
    /\ enemy.statusEffects = <<[type |-> "poison", duration |-> 4]>>
    /\ enemy.hp < Enemy(args).maxHp

\* C25: an enemy turn that starts with the enemy stunned or frozen performs
\* no action and leaves the player as it was, yet ends as a turn: the
\* enemy's effects tick once (the stun expires), the turn returns to the
\* player and the turn counter goes up by one
C25_StunnedEnemySkipsItsAction ==
    [][(/\ isActive /\ currentTurn = "enemy" /\ attached
        /\ Has(enemy.statusEffects, "stunned") \/ Has(enemy.statusEffects, "frozen")
        /\ lastCall'.op = "executeEnemyTurn")
         => /\ enemyTurn' = "skipped" /\ fault' = "none"
            /\ lastCall'.ret = "void"
            /\ player' = player
            /\ enemy'.statusEffects = Ticked(enemy.statusEffects)
            /\ enemy'.hp = enemy.hp
            /\ isActive' /\ currentTurn' = "player"
            /\ turnCounter' = turnCounter + 1
            /\ timers' = timers - 1]_vars

C25_Witness ==
    /\ enemyTurn = "skipped"
    /\ lastCall = Call("executeEnemyTurn", 0, "void")
    /\ isActive /\ currentTurn = "player" /\ turnCounter = 3
    /\ ~Has(enemy.statusEffects, "stunned")
    /\ player.cooldowns[2] = 1

\* C26: the turn counter is 1 when startCombat returns; between two active
\* states it rises by exactly one on a step in which an enemy turn ran to
\* its end and stays as it was on every other step (a player's turn end, a
\* failed flee, a stale timer); and a result resolved by a step carries the
\* counter as it stood when that step began, before cleanup resets it
C26_TurnCounterCountsEnemyTurns ==
    [][/\ lastCall'.op = "startCombat" /\ lastCall.op # "startCombat"
            => isActive' /\ turnCounter' = 1
       /\ (isActive /\ isActive')
            => turnCounter' = turnCounter + (IF enemyTurn' # "none" THEN 1 ELSE 0)
       /\ (isActive /\ isActive' /\ lastCall'.op \in {"useSkill", "attemptFlee"})
            => enemyTurn' = "none"
       /\ Len(results') > Len(results)
            => /\ Len(results') = Len(results) + 1
               /\ Last(results').turnCount = turnCounter
               /\ turnCounter >= 1]_vars

C26_Witness ==
    /\ results # <<>> /\ Last(results).turnCount = 2
    /\ Last(results).reason = "Enemy defeated"
    /\ ~isActive /\ turnCounter = 0

\* every effect of the map effs is still in the map effs2 and has lost no
\* duration
Undiminished(effs, effs2) ==
    \A i \in DOMAIN effs :
      \E j \in DOMAIN effs2 : /\ effs2[j].type = effs[i].type
                              /\ effs2[j].duration >= effs[i].duration

\* C27: while the entities are attached every effect in either map has a
\* duration above 0; a player's turn end ticks the player's effects once
\* (each duration one less, those that reach 0 removed) and takes no
\* duration from the enemy's effects, and an enemy's turn end does the same
\* the other way round
C27_DurationsArePositiveAndTickOnce ==
    [][/\ attached' =>
            /\ \A i \in DOMAIN player'.statusEffects :
                 player'.statusEffects[i].duration > 0
            /\ \A i \in DOMAIN enemy'.statusEffects :
                 enemy'.statusEffects[i].duration > 0
       /\ (/\ isActive /\ isActive'
           /\ currentTurn = "player" /\ currentTurn' = "enemy")
            => /\ player'.statusEffects = Ticked(player.statusEffects)
               /\ Undiminished(enemy.statusEffects, enemy'.statusEffects)
       /\ (isActive /\ isActive' /\ enemyTurn' # "none")
            => /\ enemy'.statusEffects = Ticked(enemy.statusEffects)
               /\ Undiminished(player.statusEffects, player'.statusEffects)]_vars

C27_Witness ==
    /\ isActive /\ currentTurn = "player" /\ enemyTurn = "acted"
    /\ enemy.statusEffects = <<[type |-> "burning", duration |-> 1]>>
    /\ player.statusEffects = <<>>

\* C28: while the combat holds its player, the counter of every skill of
\* the player lies between 0 and the skill's cooldown length
C28_CooldownWithinBounds ==
    attached =>
      \A i \in DOMAIN player.cooldowns :
        /\ 0 <= player.cooldowns[i]
        /\ player.cooldowns[i] <= PlayerSkill(args, i - 1).cooldown

C28_Witness ==
    /\ attached /\ isActive /\ currentTurn = "player" /\ turnCounter = 2
    /\ args.cls = "rogue"
    /\ lastCall.op = "executeEnemyTurn"
    /\ player.cooldowns[2] = skillTemplates.poison_blade.cooldown - 1
    /\ player.cooldowns[2] > 0
    /\ player.cooldowns[1] = 0

C30_FireballAlwaysHits ==
    [][(/\ inflight # <<>> /\ Len(inflight') < Len(inflight)
        /\ Head(inflight).res.skill.name = "fireball"
        /\ isActive /\ attached)
         => /\ Head(inflight).res.hit
            /\ attached' => enemy'.hp <= enemy.hp - 1
            /\ ~attached' => death'.who = "enemy"]_vars

\* the AI pattern the first matching rule gives an enemy of type t with hp
\* of maxHp
FirstRule(t, hp, maxHp) ==
    CASE t \in {"frost_giant"} -> "defensive"
      [] t \in {"lich"} -> "tactical"
      [] hp * 10 < maxHp * 3 -> "berserker"
      [] OTHER -> "aggressive"

\* the action type the priorities of the pattern p give the draw pt, the
\* types without a skill or ability behind them falling back to attack
Priority(p, pt) ==
    CASE p = "defensive" -> IF pt < 40 THEN "defend" ELSE "attack"
      [] OTHER -> "attack"

\* C31: a chooseEnemyAction call that uses no boss phase ability picks the
\* pattern of the first matching rule (giant or tank: defensive; mage or
\* lich: tactical; berserker or hp below 30% of the maximum: berserker;
\* otherwise aggressive), and the action it returns is defend or carries
\* the basic attack; it is never heal, as no enemy can heal
C31_PatternByFirstMatchingRule ==
    (ai.op = "chooseEnemyAction" /\ ~ai.phase)
      => /\ ai.pattern = FirstRule(ai.type, ai.hp, ai.maxHp)
         /\ ai.action.type = Priority(ai.pattern, ai.pt)
         /\ ai.action.type \in {"attack", "defend"}
         /\ ai.action.type = "attack" => ai.action.skill = EnemyBasicAttack(AiArgs(ai.type))

C31_Witness ==
    /\ ai.op = "chooseEnemyAction" /\ ~ai.phase
    /\ ai.type = "frost_giant" /\ ai.hp * 10 < ai.maxHp * 3
    /\ ai.pattern = "defensive" /\ ai.action.type = "defend"

\* C32: a grant of experience terminates: every iteration of the loop
\* raises the level by one, takes experienceToNext off the experience and
\* replaces experienceToNext by floor(1.2 * experienceToNext); the loop is
\* always left, and when it is left 0 <= experience < experienceToNext, hp
\* <= maxHealth and mana <= maxMana
C32_LevelUpLoopTerminates ==
    /\ [][(hero.pc = "loop" /\ hero'.pc = "loop")
            => /\ hero.experience >= hero.experienceToNext
               /\ hero'.level = hero.level + 1
               /\ hero'.experience = hero.experience - hero.experienceToNext
               /\ hero'.experienceToNext = (hero.experienceToNext * 12) \div 10
               /\ hero'.experienceToNext >= hero.experienceToNext
               /\ hero'.experience < hero.experience
               /\ hero'.experience >= 0]_vars
    /\ (hero.pc = "loop") ~> (hero.pc = "idle")
    /\ [](hero.pc = "idle"
            => /\ 0 <= hero.experience /\ hero.experience < hero.experienceToNext
               /\ hero.hp <= hero.maxHealth /\ hero.mana <= hero.maxMana)

C32_Witness ==
    /\ hero.pc = "idle" /\ hero.grants = 1 /\ hero.level = 4
    /\ hero.experienceToNext = 172 /\ hero.experience = 36
    /\ hero.hp = hero.maxHealth /\ hero.maxHealth > NewHero(hero.cls).maxHealth

\* C33: no boss phase fires in the damage event that brings the boss's hp to
\* 0, nor once the combat is resolved: the phases fired so far stay as they
\* are from the resolution on
C33_NoPhaseAtOrAfterDeath ==
    [][/\ \A k \in DOMAIN hits' : hits'[k].after = 0 => hits'[k].fired = <<>>
       /\ (~isActive /\ args' = args) => phaseLog' = phaseLog]_vars

\* the player carries stunned or frozen on their own turn of a combat that
\* cannot be fled, and no useSkill call is awaiting its result
IncapacitatedOnOwnTurn ==
    /\ isActive /\ attached /\ currentTurn = "player" /\ inflight = <<>>
    /\ ~combatOptions.allowFlee
    /\ Has(player.statusEffects, "stunned") \/ Has(player.statusEffects, "frozen")

\* C34: in a combat with allowFlee = false, a player who is stunned or
\* frozen on their own turn is not left without an action that passes
\* validation: useSkill accepts one of the player's skills, which ends the
\* turn and lets the effect expire
C34_IncapacitatedPlayerCanAct ==
    IncapacitatedOnOwnTurn =>
      \E i \in 0..(Len(Character(args).skills) - 1) : UseSkillAccepts(i)

OwnOptions(a) == a.options @@ [isBoss |-> FALSE, allowFlee |-> TRUE]

\* C37: a combat runs under the options of its own startCombat call over
\* the defaults isBoss = false and allowFlee = true; the enemy of a combat
\* started without isBoss has no boss status resistance and no phase data
C37_OptionsAreTheCallsOwn ==
    (isActive /\ attached) =>
      /\ combatOptions = OwnOptions(args)
      /\ ~OwnOptions(args).isBoss =>
           (enemy.statusResistance100 = 0 /\ ~enemy.hasBossData)

\* C38: when the enemy has taken the defend action and its defense_boost
\* was applied, the enemy carries defense_boost when the player's next
\* useSkill call resolves its skill
C38_DefenseBoostLastsToNextSkill ==
    [][(/\ enemyTurn = "defended"
        /\ lastCall'.op = "useSkill" /\ lastCall'.ret = "pending")
         => Has(enemy.statusEffects, "defense_boost")]_vars

\* the phases of the boss that a hit finds waiting: not triggered, their
\* threshold already met by the hp the hit starts from
Pending(h) ==
    {i \in 0..(Len(bossPhases[args.etype]) - 1) :
       /\ i \notin h.triggered
       /\ h.before * 100 <= bossPhases[args.etype][i + 1].hpThreshold100 * Enemy(args).maxHp}

\* the triggered set of the boss is {0, ..., currentPhase - 1} and the
\* phases were announced in index order
InIndexOrder ==
    /\ phaseLog = [i \in 1..Len(phaseLog) |-> i - 1]
    /\ (attached /\ enemy.hasBossData) =>
         /\ enemy.triggeredPhases = 0..(enemy.currentPhase - 1)
         /\ enemy.currentPhase = Len(phaseLog)

\* C39 (as stated): phases fire in index order without skipping, the
\* triggered set is {0, ..., currentPhase - 1}, and every phase whose
\* threshold an earlier hit crossed fires on the next damage application
C39_PendingPhaseFiresOnNextHit ==
    /\ InIndexOrder
    /\ \A k \in DOMAIN hits :
         \A i \in Pending(hits[k]) : \E j \in DOMAIN hits[k].fired : hits[k].fired[j] = i

\* C39 (amended): phases fire in index order without skipping, the
\* triggered set is {0, ..., currentPhase - 1}, and every damage application
\* that leaves the hp at or below the threshold of an untriggered phase
\* fires the lowest untriggered phase and no other
C39_LowestPendingPhaseFires ==
    /\ InIndexOrder
    /\ \A k \in DOMAIN hits :
         hits[k].fired = IF Met(hits[k]) \ hits[k].triggered = {} THEN <<>>
                         ELSE <<Cardinality(hits[k].triggered)>>

C39_Witness ==
    \E k \in DOMAIN hits :
      /\ Cardinality(Pending(hits[k])) = 2
      /\ hits[k].after > 0
      /\ hits[k].fired = <<Cardinality(hits[k].triggered)>>

\* C40: when a skill with a cooldown length of at least 1 was used
\* successfully and the enemy's turn has handed the turn back, the skill is
\* on cooldown: useSkill rejects it on the player's next turn
C40_NoUseOnConsecutiveTurns ==
    [][\A i \in SkillChoices :
         (/\ lastCall = Call("useSkill", i, "true")
          /\ HasSkill(args, i) /\ PlayerSkill(args, i).cooldown >= 1
          /\ lastCall'.op = "executeEnemyTurn"
          /\ isActive' /\ attached' /\ currentTurn' = "player")
           => /\ player'.cooldowns[i + 1] > 0
              /\ ~UseSkillAccepts(i)']_vars

====
